---- MODULE Spec2Model ----
(***************************************************************************)
(* Model of the MCP tool servers: the GitHub REST tool (GitHubTool), its   *)
(* dispatch layer (GitHubHandler) and front end (github_server), and the   *)
(* MongoDB tool (MongoDBTool), its dispatch layer (ToolHandler) and front  *)
(* end (mongodb_server).                                                   *)
(*                                                                         *)
(* Python values are tagged pairs <<tag, payload>>:                        *)
(*   <<"none", 0>>  None          <<"absent", 0>>  key missing from a bag  *)
(*   <<"int", n>>   an int        <<"str", s>>     a str                   *)
(*   <<"bool", b>>  a bool        <<"float", n>>   a float (n its floor)   *)
(*   <<"date", t>>  a datetime    <<"oid", n>>     a bson ObjectId         *)
(*   <<"dict", f>>  a dict (f a function on its keys)                      *)
(*   <<"list", s>>  a list (s a sequence)                                  *)
(***************************************************************************)
EXTENDS Integers, Sequences, FiniteSets, TLC

VARIABLES
    github_token,     \* GitHubTool.github_token (os.getenv("GITHUB_TOKEN"))
    github_username,  \* GitHubTool.github_username
    headers,          \* GitHubTool.headers: the set of header names
    gh_call,          \* the GitHub invocation last served: layer, tool, args
    gh_ret,           \* what that invocation gave back to its caller
    http,             \* the HTTP exchanges that invocation performed, in order
    coll,             \* the documents of the database collection, natural order
    next_id,          \* the next ObjectId the driver generates
    clock,            \* datetime.utcnow()
    db_call,          \* the database invocation last served
    db_ret,           \* what that invocation gave back to its caller
    cmds,             \* the driver commands that invocation issued, in order
    val,              \* the value _serialize_objectid is being applied to
    orig,             \* the value it started from
    prev,             \* the value before the last application
    applied,          \* how many times it has been applied
    base_url,         \* GitHubTool.base_url
    client,           \* MongoDBTool.client and .db, the connection
    database_name,    \* MongoDBTool.database_name
    default_collection, \* MongoDBTool.default_collection
    repo_issues,      \* the issues the upstream repository holds, oldest first
    posted,           \* POST requests the upstream has received
    calls,            \* create_issue invocations made so far
    tasks,            \* the tool calls the event loop has taken in, in order
    wire              \* the upstream requests sent so far: <<task, endpoint>>

vars == <<github_token, github_username, headers, gh_call, gh_ret, http,
          coll, next_id, clock, db_call, db_ret, cmds,
          val, orig, prev, applied,
          base_url, client, database_name, default_collection,
          repo_issues, posted, calls, tasks, wire>>

\* the shared client handles
gh_handle == <<github_token, github_username, base_url, headers>>
db_handle == <<client, database_name, default_collection>>

gh_vars == <<gh_handle, gh_call, gh_ret, http>>
db_vars == <<db_handle, coll, next_id, clock, db_call, db_ret, cmds>>
ser_vars == <<val, orig, prev, applied>>
up_vars == <<repo_issues, posted, calls>>
loop_vars == <<tasks, wire>>

----------------------------------------------------------------------------
(* Python values *)

None == <<"none", 0>>
Absent == <<"absent", 0>>
I(n) == <<"int", n>>
S(s) == <<"str", s>>
B(b) == <<"bool", b>>
D(f) == <<"dict", f>>
L(s) == <<"list", s>>
EmptyDict == D(<<>>)
EmptyList == L(<<>>)

IsInt(v) == v[1] = "int"
IsStr(v) == v[1] = "str"
IsDict(v) == v[1] = "dict"
IsList(v) == v[1] = "list"

\* Python truthiness (`if x`, `not x`)
Truthy(v) ==
    CASE v[1] = "int" -> v[2] # 0
      [] v[1] = "float" -> TRUE
      [] v[1] = "str" -> v[2] # ""
      [] v[1] = "bool" -> v[2]
      [] v[1] = "dict" -> DOMAIN v[2] # {}
      [] v[1] = "list" -> Len(v[2]) > 0
      [] v[1] = "none" -> FALSE
      [] v[1] = "absent" -> FALSE
      [] OTHER -> TRUE

\* dict.get(key, default) on an argument bag: the default only replaces a
\* missing key, an explicit None stays None
Get(args, key, default) == IF args[key] = Absent THEN default ELSE args[key]

Min(a, b) == IF a < b THEN a ELSE b

----------------------------------------------------------------------------
(* JSON envelopes: the top-level keys, the error message ("" when there is *)
(* none), and the keys whose value is itself an envelope with an "error".  *)

Err(msg) == [keys |-> {"error"}, error |-> msg, nested |-> {}]
ErrCtx(msg, ctx) == [keys |-> {"error"} \cup ctx, error |-> msg, nested |-> {}]
Succ(keys) == [keys |-> keys, error |-> "", nested |-> {}]

\* what a call gives back: a returned string (an envelope) or an exception
Returned(env) == [outcome |-> "value", env |-> env]
Raised(exc) == [outcome |-> "raise", env |-> Err(exc)]
NoReturn == [outcome |-> "none", env |-> Succ({})]

----------------------------------------------------------------------------
(* GitHubTool._make_request *)

\* An upstream answer: an HTTP status with a body, or a transport failure
\* (status 0: requests raises a RequestException).  Body kinds: no content,
\* a JSON object, a JSON object that has a "timestamp" member, a JSON array,
\* text that is not JSON.
OkStatuses == {102, 200, 201, 304}
ErrStatuses == {401, 403, 404, 422, 500}
Bodies == {"empty", "object", "array", "invalid"}

\* a member of a JSON object the upstream answered with, Absent when the
\* object has no such key
Member(obj, key) == IF key \in DOMAIN obj THEN obj[key] ELSE Absent

\* obj.get(key): None for a key the object lacks
Lookup(obj, key) == IF Member(obj, key) = Absent THEN None ELSE obj[key]

\* a raw issue record of the issues API: its number, its "pull_request"
\* member and its "body" member (Absent when the record has no such key)
RawIssue(number, pull_request, body) ==
    [number |-> I(number), pull_request |-> pull_request, body |-> body]

\* JSON arrays of issue records an upstream may answer with: issues and a
\* pull request, a record whose marker is present but null, a record whose
\* marker is present but an empty object, an issue whose body is null,
\* issues whose bodies are 500, 501 and 504 characters long, an issue whose
\* user is null
IssueBodies == {"issues_pull", "issues_null_marker", "issues_empty_marker",
                "issues_null_body", "issues_long_body", "issues_null_user"}

\* texts of 10, 100 and 500 characters
Chars10 == "aaaaaaaaaa"
Chars100 == Chars10 \o Chars10 \o Chars10 \o Chars10 \o Chars10
              \o Chars10 \o Chars10 \o Chars10 \o Chars10 \o Chars10
Chars500 == Chars100 \o Chars100 \o Chars100 \o Chars100 \o Chars100

\* a raw entry of a directory listing of the contents API
RawEntry(name, type) == [name |-> S(name), type |-> S(type)]

\* a directory listing
DirBodies == {"dir_listing"}

\* single-file objects of the contents API: a small text file, a small
\* file that is no UTF-8 text, a small file whose content is cut short, a
\* file one byte under the limit, one at the limit, and one the upstream
\* sends without content (encoding "none")
FileBodies == {"file_text", "file_binary", "file_cut", "file_under",
               "file_limit", "file_raw"}

ArrayBodies == {"array"} \cup IssueBodies \cup DirBodies

\* response.json() of an array body: the sequence of its records
Payload(body) ==
    CASE body = "issues_pull" ->
            <<RawIssue(1, Absent, S("text")),
              RawIssue(2, D([url |-> S("pulls/2")]), S("text")),
              RawIssue(3, Absent, Absent)>>
      [] body = "issues_null_marker" ->
            <<RawIssue(1, Absent, S("text")), RawIssue(2, None, S("text"))>>
      [] body = "issues_empty_marker" ->
            <<RawIssue(1, EmptyDict, S("text")), RawIssue(2, Absent, S("text"))>>
      [] body = "issues_null_body" ->
            <<RawIssue(1, Absent, None), RawIssue(2, Absent, S("text"))>>
      [] body = "issues_long_body" ->
            <<RawIssue(1, Absent, S(Chars500)),
              RawIssue(2, Absent, S(Chars500 \o "b")),
              RawIssue(3, Absent, S(Chars500 \o "bcde"))
                  @@ [user |-> D([login |-> S("octocat")])]>>
      [] body = "issues_null_user" ->
            <<RawIssue(1, Absent, S("text")),
              RawIssue(2, Absent, S("text")) @@ [user |-> None]>>
      [] body = "dir_listing" ->
            <<RawEntry("src", "dir"), RawEntry("README.md", "file"),
              RawEntry("LICENSE", "file")>>
      [] OTHER ->
            <<RawIssue(1, Absent, S("text")), RawIssue(2, Absent, S("text"))>>

RawFile(encoding, size, content) ==
    [encoding |-> encoding, size |-> size, content |-> content]

\* response.json() of an object body, as far as get_repository_contents
\* reads it
FileObject(body) ==
    CASE body = "file_text" -> RawFile(S("base64"), I(2), S("aGk="))
      [] body = "file_binary" -> RawFile(S("base64"), I(1), S("/w=="))
      [] body = "file_cut" -> RawFile(S("base64"), I(2), S("aGk"))
      [] body = "file_under" -> RawFile(S("base64"), I(1048575), S("aGk="))
      [] body = "file_limit" -> RawFile(S("base64"), I(1048576), S("aGk="))
      [] body = "file_raw" -> RawFile(S("none"), I(2000000), S(""))
      [] OTHER -> RawFile(Absent, Absent, Absent)

Undecodable == <<"raise", "binascii.Error or UnicodeDecodeError">>

\* base64.b64decode(content).decode('utf-8'): "aGk=" is the text "hi",
\* "/w==" is the byte 0xFF, which is no UTF-8, "aGk" lacks its padding
b64decode(content) ==
    CASE content = S("aGk=") -> S("hi")
      [] content = S("") -> S("")
      [] OTHER -> Undecodable
Transport == {[status |-> 0, body |-> "timeout"], [status |-> 0, body |-> "connection"]}
Responses ==
    [status : OkStatuses, body : Bodies]
      \cup [status : ErrStatuses, body : {"object"}]
      \cup [status : {200}, body : IssueBodies \cup DirBodies \cup FileBodies]
      \cup Transport

\* requests.Response.ok: raise_for_status() raises only for 400..599
ok(status) == ~(400 <= status /\ status < 600)

ReqError(msg, status) == [kind |-> "error", error |-> msg, status |-> status, ts |-> FALSE]
Parsed(kind, ts) == [kind |-> kind, error |-> "", status |-> 0, ts |-> ts]

\* The result dictionary (or list) _make_request returns for an answer.
\* response.json() on a body that is not JSON raises, and the except clauses
\* turn that into an error dictionary as well.
_make_request(resp) ==
    IF resp.status = 0 THEN ReqError("Request failed", 0)
    ELSE IF resp.status = 401 THEN ReqError("Authentication failed", 0)
    ELSE IF resp.status = 403 THEN ReqError("Access forbidden", 0)
    ELSE IF resp.status = 404 THEN ReqError("Resource not found", 0)
    ELSE IF ~ok(resp.status) THEN ReqError("GitHub API error", resp.status)
    ELSE IF resp.body = "empty" THEN Parsed("marker", FALSE)
    ELSE IF resp.body = "invalid" THEN ReqError("Request failed", 0)
    ELSE IF resp.body \in ArrayBodies THEN Parsed("list", FALSE)
    ELSE Parsed("dict", resp.body = "object_ts")

\* one HTTP exchange: the request sent, the answer, and what _make_request
\* made of it
Exchange(method, endpoint, per_page, resp) ==
    [method |-> method, endpoint |-> endpoint, per_page |-> per_page,
     resp |-> resp, result |-> _make_request(resp)]

\* what a call yields: the envelope returned, the HTTP exchanges performed
\* and the GitHubTool methods invoked on the way
Done(env, exchanges) == [env |-> env, http |-> exchanges, invoked |-> <<>>]

\* `if "error" in result: return json.dumps(result)`, then the projection of
\* the parsed body; a body of the wrong JSON type raises inside the try and
\* the except clause returns {"error": str(e)}
Project(x, kinds, keys) ==
    IF x.result.kind = "error" THEN Err(x.result.error)
    ELSE IF x.result.kind \in kinds THEN Succ(keys)
    ELSE Err("exception")

----------------------------------------------------------------------------
(* GitHubTool: one operator per public method.  a is the argument record,  *)
(* resp the answer the upstream gives if the method sends its request.     *)
(* Each yields the envelope returned and the HTTP exchanges performed.     *)

PerPageCap == 100

\* `min(per_page, 100)`: defined on ints, a TypeError on None or a str
MinPerPage(per_page) == I(Min(per_page[2], PerPageCap))

\* `not isinstance(n, int) or n <= 0`
NotPositiveInt(n) == ~IsInt(n) \/ n[2] <= 0

\* a listing method: build params (per_page clamped from above), one GET,
\* project every element of the array
Listing(endpoint, a, resp, kinds, keys) ==
    IF ~IsInt(a.per_page) THEN Done(Err("exception"), <<>>)
    ELSE LET x == Exchange("GET", endpoint, MinPerPage(a.per_page), resp)
         IN  Done(Project(x, kinds, keys), <<x>>)

\* a method that sends one request without pagination
Single(method, endpoint, resp, kinds, keys) ==
    LET x == Exchange(method, endpoint, None, resp)
    IN  Done(Project(x, kinds, keys), <<x>>)

get_repository_info(a, resp) ==
    Single("GET", "repos", resp, {"dict", "marker"},
           {"operation", "repository", "data"})

list_repositories(a, resp) ==
    Listing("users/repos", a, resp, {"list"},
            {"operation", "owner", "type", "count", "repositories"})

SizeLimit == 1048576

\* the record appended for an entry of a directory listing
ContentRecord(item) ==
    [name |-> Lookup(item, "name"), type |-> Lookup(item, "type")]

\* the directory records get_repository_contents really builds are those of
\* DirectoryRecords; this variant loses the last entry
DirectoryRecordsButLast(items) ==
    [i \in 1..(Len(items) - 1) |-> ContentRecord(items[i])]

DirectoryRecords(items) == [i \in 1..Len(items) |-> ContentRecord(items[i])]

\* file_info: the content key is set only for base64 below the limit
FileInfo(raw) ==
    LET info == [encoding |-> Get(raw, "encoding", None),
                 size |-> Get(raw, "size", None)]
        text == b64decode(Get(raw, "content", S("")))
    IN  IF raw.encoding = S("base64") /\ Get(raw, "size", I(0))[2] < SizeLimit
        THEN info @@ [content |-> IF text = Undecodable
                                   THEN S("Binary file or encoding error")
                                   ELSE text]
        ELSE info

get_repository_contents(a, resp) ==
    LET x == Exchange("GET", "repos/contents", None, resp)
    IN  Done(IF x.result.kind = "error" THEN Err(x.result.error)
             ELSE IF x.result.kind = "list"
                  THEN Succ({"operation", "repository", "path", "type", "contents"})
                         @@ [type |-> "directory",
                             contents |-> DirectoryRecords(Payload(resp.body))]
                  ELSE Succ({"operation", "repository", "path", "type", "file"})
                         @@ [type |-> "file", file |-> FileInfo(FileObject(resp.body))],
             <<x>>)

\* `if issue.get("pull_request"): continue`
Skipped(issue) == Truthy(Lookup(issue, "pull_request"))

\* the records of the array that list_issues keeps, in order
RECURSIVE KeptIssues(_)
KeptIssues(items) ==
    IF items = <<>> THEN <<>>
    ELSE IF Skipped(Head(items)) THEN KeptIssues(Tail(items))
    ELSE <<Head(items)>> \o KeptIssues(Tail(items))

BodyLimit == 500

\* the body cut one character early: a text of exactly 500 characters is
\* cut as well
TruncatedFrom500(body) ==
    IF Len(body[2]) >= BodyLimit
    THEN S(SubSeq(body[2], 1, BodyLimit) \o "...")
    ELSE body

\* `body[:500] + "..." if len(body) > 500 else body`
Truncated(body) ==
    IF Len(body[2]) > BodyLimit
    THEN S(SubSeq(body[2], 1, BodyLimit) \o "...")
    ELSE body

\* the projection of a record raises: len() of a body that is null, or
\* .get("login") on a user that is null
ProjectionFails(item) ==
    Member(item, "body") = None \/ Member(item, "user") = None

\* the record appended for a kept issue: issue.get("body", "") for the
\* body, issue.get("user", {}).get("login") for the user
IssueRecord(issue) ==
    [number |-> Lookup(issue, "number"),
     body |-> Truncated(IF Member(issue, "body") = Absent THEN S("")
                        ELSE issue.body),
     user |-> IF Member(issue, "user") = Absent THEN None
              ELSE Lookup(issue.user[2], "login")]

\* list_issues: one GET, then the loop over the array.  A projection that
\* raises does so inside the try, as does the loop over a result that is no
\* array.
list_issues(a, resp) ==
    IF ~IsInt(a.per_page) THEN Done(Err("exception"), <<>>)
    ELSE LET x == Exchange("GET", "repos/issues", MinPerPage(a.per_page), resp)
             kept == KeptIssues(Payload(resp.body))
             issues == [i \in 1..Len(kept) |-> IssueRecord(kept[i])]
         IN  Done(IF x.result.kind = "error" THEN Err(x.result.error)
                  ELSE IF x.result.kind # "list" THEN Err("exception")
                  ELSE IF \E i \in 1..Len(kept) : ProjectionFails(kept[i])
                  THEN Err("exception")
                  ELSE Succ({"operation", "repository", "state", "count", "issues"})
                         @@ [count |-> Len(issues), issues |-> issues],
                  <<x>>)

\* create_issue with the credential test written as `is None`: an empty
\* token string passes it
create_issue_is_none(a, resp) ==
    IF github_token = None
    THEN Done(Err("GitHub token required for creating issues"), <<>>)
    ELSE Single("POST", "repos/issues", resp, {"dict", "marker"},
                {"operation", "repository", "success", "issue"})

\* create_issue with a memory of titles: a title the repository already
\* holds is answered without a request
create_issue_deduplicating(a, resp) ==
    IF ~Truthy(github_token)
    THEN Done(Err("GitHub token required for creating issues"), <<>>)
    ELSE IF \E i \in 1..Len(repo_issues) : repo_issues[i] = a.title
    THEN Done(Succ({"operation", "repository", "success", "issue"}), <<>>)
    ELSE Single("POST", "repos/issues", resp, {"dict", "marker"},
                {"operation", "repository", "success", "issue"})

create_issue(a, resp) ==
    IF ~Truthy(github_token)
    THEN Done(Err("GitHub token required for creating issues"), <<>>)
    ELSE Single("POST", "repos/issues", resp, {"dict", "marker"},
                {"operation", "repository", "success", "issue"})

\* the records of a sequence whose projection does not raise, in order
RECURSIVE Projectable(_)
Projectable(items) ==
    IF items = <<>> THEN <<>>
    ELSE IF ProjectionFails(Head(items)) THEN Projectable(Tail(items))
    ELSE <<Head(items)>> \o Projectable(Tail(items))

\* list_pull_requests leaving out the records it cannot project
list_pull_requests_partial(a, resp) ==
    IF ~IsInt(a.per_page) THEN Done(Err("exception"), <<>>)
    ELSE LET x == Exchange("GET", "repos/pulls", MinPerPage(a.per_page), resp)
             items == Projectable(Payload(resp.body))
             pulls == [i \in 1..Len(items) |-> IssueRecord(items[i])]
         IN  Done(IF x.result.kind = "error" THEN Err(x.result.error)
                  ELSE IF x.result.kind # "list" THEN Err("exception")
                  ELSE Succ({"operation", "repository", "state", "count",
                             "pull_requests"})
                         @@ [count |-> Len(pulls), pull_requests |-> pulls],
                  <<x>>)

\* list_pull_requests: one GET, then the loop over the array; every record
\* is projected, number, body and user as list_issues projects them
list_pull_requests(a, resp) ==
    IF ~IsInt(a.per_page) THEN Done(Err("exception"), <<>>)
    ELSE LET x == Exchange("GET", "repos/pulls", MinPerPage(a.per_page), resp)
             items == Payload(resp.body)
             pulls == [i \in 1..Len(items) |-> IssueRecord(items[i])]
         IN  Done(IF x.result.kind = "error" THEN Err(x.result.error)
                  ELSE IF x.result.kind # "list" THEN Err("exception")
                  ELSE IF \E i \in 1..Len(items) : ProjectionFails(items[i])
                  THEN Err("exception")
                  ELSE Succ({"operation", "repository", "state", "count",
                             "pull_requests"})
                         @@ [count |-> Len(pulls), pull_requests |-> pulls],
                  <<x>>)

get_repository_branches(a, resp) ==
    Listing("repos/branches", a, resp, {"list"},
            {"operation", "repository", "count", "branches"})

\* search_repositories: the success envelope repeats the query it was given
search_repositories(a, resp) ==
    LET r == Listing("search/repositories", a, resp, {"dict", "marker"},
                     {"operation", "query", "total_count", "count", "repositories"})
    IN  IF r.env.error = "" THEN [r EXCEPT !.env = r.env @@ [query |-> a.query]]
        ELSE r

get_user_info(a, resp) ==
    Single("GET", "users", resp, {"dict", "marker"},
           {"operation", "username", "user"})

get_my_repositories(a, resp) ==
    IF ~Truthy(github_token)
    THEN Done(Err("GitHub token required to get your repositories"), <<>>)
    ELSE IF ~Truthy(github_username)
    THEN Done(Err("GitHub username not configured"), <<>>)
    ELSE Listing("user/repos", a, resp, {"list"},
                 {"operation", "username", "type", "count", "repositories"})

get_authenticated_user_info(a, resp) ==
    IF ~Truthy(github_token)
    THEN Done(Err("GitHub token required to get your user info"), <<>>)
    ELSE Single("GET", "user", resp, {"dict", "marker"}, {"operation", "user"})

\* `not owner or not repo` then the pull-number check shared by the
\* pull-request methods; "" when the arguments pass
PullArgsError(a, number, what) ==
    IF ~Truthy(a.owner) \/ ~Truthy(a.repo) THEN "Owner and repo are required"
    ELSE IF NotPositiveInt(number) THEN what
    ELSE ""

get_pull_request_reviews(a, resp) ==
    LET e == PullArgsError(a, a.pull_number, "Pull number must be a positive integer")
    IN  IF e # "" THEN Done(Err(e), <<>>)
        ELSE Single("GET", "repos/pulls/reviews", resp, {"list"},
                    {"operation", "owner", "repo", "pull_number",
                     "reviews_count", "reviews"})

valid_events == {"APPROVE", "REQUEST_CHANGES", "COMMENT"}

create_pull_request_review(a, resp) ==
    LET e == PullArgsError(a, a.pull_number, "Pull number must be a positive integer")
    IN  IF ~Truthy(github_token)
        THEN Done(Err("GitHub token required for creating reviews"), <<>>)
        ELSE IF e # "" THEN Done(Err(e), <<>>)
        ELSE IF a.event \notin {S(ev) : ev \in valid_events}
        THEN Done(Err("Event must be one of"), <<>>)
        ELSE Single("POST", "repos/pulls/reviews", resp, {"dict", "marker"},
                    {"operation", "owner", "repo", "pull_number", "review"})

get_pull_request_review_comments(a, resp) ==
    LET e == PullArgsError(a, a.pull_number, "Pull number must be a positive integer")
    IN  IF e # "" THEN Done(Err(e), <<>>)
        ELSE Single("GET", "repos/pulls/comments", resp, {"list"},
                    {"operation", "owner", "repo", "pull_number",
                     "comments_count", "comments"})

create_pull_request_review_comment(a, resp) ==
    IF ~Truthy(github_token)
    THEN Done(Err("GitHub token required for creating review comments"), <<>>)
    ELSE IF ~(Truthy(a.owner) /\ Truthy(a.repo) /\ Truthy(a.body)
              /\ Truthy(a.commit_id) /\ Truthy(a.path))
    THEN Done(Err("Owner, repo, body, commit_id, and path are required"), <<>>)
    ELSE IF NotPositiveInt(a.pull_number)
    THEN Done(Err("Pull number must be a positive integer"), <<>>)
    ELSE IF a.side \notin {S("LEFT"), S("RIGHT")}
    THEN Done(Err("Side must be either 'LEFT' or 'RIGHT'"), <<>>)
    ELSE Single("POST", "repos/pulls/comments", resp, {"dict", "marker"},
                {"operation", "owner", "repo", "pull_number", "comment"})

update_pull_request_review_comment(a, resp) ==
    IF ~Truthy(github_token)
    THEN Done(Err("GitHub token required for updating review comments"), <<>>)
    ELSE IF ~(Truthy(a.owner) /\ Truthy(a.repo) /\ Truthy(a.body))
    THEN Done(Err("Owner, repo, and body are required"), <<>>)
    ELSE IF NotPositiveInt(a.comment_id)
    THEN Done(Err("Comment ID must be a positive integer"), <<>>)
    ELSE Single("PATCH", "repos/pulls/comments/id", resp, {"dict", "marker"},
                {"operation", "owner", "repo", "comment_id", "comment"})

delete_pull_request_review_comment(a, resp) ==
    LET e == PullArgsError(a, a.comment_id, "Comment ID must be a positive integer")
    IN  IF ~Truthy(github_token)
        THEN Done(Err("GitHub token required for deleting review comments"), <<>>)
        ELSE IF e # "" THEN Done(Err(e), <<>>)
        ELSE Single("DELETE", "repos/pulls/comments/id", resp,
                    {"dict", "marker", "list"},
                    {"operation", "owner", "repo", "comment_id", "status", "message"})

get_pull_request_files(a, resp) ==
    LET e == PullArgsError(a, a.pull_number, "Pull number must be a positive integer")
    IN  IF e # "" THEN Done(Err(e), <<>>)
        ELSE Single("GET", "repos/pulls/files", resp, {"list"},
                    {"operation", "owner", "repo", "pull_number", "files_count",
                     "total_additions", "total_deletions", "total_changes", "files"})

\* the public methods of GitHubTool
ToolMethods ==
    {"get_repository_info", "list_repositories", "get_repository_contents",
     "list_issues", "create_issue", "list_pull_requests",
     "get_repository_branches", "search_repositories", "get_user_info",
     "get_my_repositories", "get_authenticated_user_info",
     "get_pull_request_reviews", "create_pull_request_review",
     "get_pull_request_review_comments", "create_pull_request_review_comment",
     "update_pull_request_review_comment", "delete_pull_request_review_comment",
     "get_pull_request_files"}

\* github_tool.<method>(...)
Method(method, a, resp) ==
    CASE method = "get_repository_info" -> get_repository_info(a, resp)
      [] method = "list_repositories" -> list_repositories(a, resp)
      [] method = "get_repository_contents" -> get_repository_contents(a, resp)
      [] method = "list_issues" -> list_issues(a, resp)
      [] method = "create_issue" -> create_issue(a, resp)
      [] method = "list_pull_requests" -> list_pull_requests(a, resp)
      [] method = "get_repository_branches" -> get_repository_branches(a, resp)
      [] method = "search_repositories" -> search_repositories(a, resp)
      [] method = "get_user_info" -> get_user_info(a, resp)
      [] method = "get_my_repositories" -> get_my_repositories(a, resp)
      [] method = "get_authenticated_user_info" -> get_authenticated_user_info(a, resp)
      [] method = "get_pull_request_reviews" -> get_pull_request_reviews(a, resp)
      [] method = "create_pull_request_review" -> create_pull_request_review(a, resp)
      [] method = "get_pull_request_review_comments" -> get_pull_request_review_comments(a, resp)
      [] method = "create_pull_request_review_comment" -> create_pull_request_review_comment(a, resp)
      [] method = "update_pull_request_review_comment" -> update_pull_request_review_comment(a, resp)
      [] method = "delete_pull_request_review_comment" -> delete_pull_request_review_comment(a, resp)
      [] method = "get_pull_request_files" -> get_pull_request_files(a, resp)

\* github_tool.<method>(...): the method runs and the call is on record
CallTool(method, a, resp) ==
    [Method(method, a, resp) EXCEPT !.invoked = <<method>>]

----------------------------------------------------------------------------
(* GitHubHandler: the dispatch layer.  args is the argument bag: a record  *)
(* over ArgNames in which a missing key holds Absent.                      *)

\* `not isinstance(per_page, int) or per_page < 1 or per_page > 100`
BadPerPage(per_page) ==
    ~IsInt(per_page) \/ per_page[2] < 1 \/ per_page[2] > PerPageCap

\* args.get(k) for every key, args.get(k, default) for the keys in defaults
Resolve(args, defaults) ==
    [k \in DOMAIN args |->
        IF args[k] # Absent THEN args[k]
        ELSE IF k \in DOMAIN defaults THEN defaults[k] ELSE None]

Reject(msg) == Done(Err(msg), <<>>)

_handle_get_repository_info(args, resp) ==
    LET a == Resolve(args, <<>>)
    IN  IF ~Truthy(a.owner) THEN Reject("Owner parameter is required")
        ELSE IF ~Truthy(a.repo) THEN Reject("Repository parameter is required")
        ELSE CallTool("get_repository_info", a, resp)

_handle_list_repositories(args, resp) ==
    LET a == Resolve(args, [repo_type |-> S("all"), per_page |-> I(30)])
    IN  IF ~Truthy(a.owner) THEN Reject("Owner parameter is required")
        ELSE IF a.repo_type \notin {S("all"), S("owner"), S("member")}
        THEN Reject("Type must be one of: all, owner, member")
        ELSE IF BadPerPage(a.per_page)
        THEN Reject("per_page must be an integer between 1 and 100")
        ELSE CallTool("list_repositories", a, resp)

_handle_get_repository_contents(args, resp) ==
    LET a == Resolve(args, [path |-> S("")])
    IN  IF ~Truthy(a.owner) THEN Reject("Owner parameter is required")
        ELSE IF ~Truthy(a.repo) THEN Reject("Repository parameter is required")
        ELSE CallTool("get_repository_contents", a, resp)

_handle_get_repository_branches(args, resp) ==
    LET a == Resolve(args, [per_page |-> I(30)])
    IN  IF ~Truthy(a.owner) THEN Reject("Owner parameter is required")
        ELSE IF ~Truthy(a.repo) THEN Reject("Repository parameter is required")
        ELSE IF BadPerPage(a.per_page)
        THEN Reject("per_page must be an integer between 1 and 100")
        ELSE CallTool("get_repository_branches", a, resp)

States == {S("open"), S("closed"), S("all")}

_handle_list_issues(args, resp) ==
    LET a == Resolve(args, [state |-> S("open"), per_page |-> I(30)])
    IN  IF ~Truthy(a.owner) THEN Reject("Owner parameter is required")
        ELSE IF ~Truthy(a.repo) THEN Reject("Repository parameter is required")
        ELSE IF a.state \notin States
        THEN Reject("State must be one of: open, closed, all")
        ELSE IF BadPerPage(a.per_page)
        THEN Reject("per_page must be an integer between 1 and 100")
        ELSE CallTool("list_issues", a, resp)

_handle_create_issue(args, resp) ==
    LET a == Resolve(args, <<>>)
    IN  IF ~Truthy(a.owner) THEN Reject("Owner parameter is required")
        ELSE IF ~Truthy(a.repo) THEN Reject("Repository parameter is required")
        ELSE IF ~Truthy(a.title) THEN Reject("Title parameter is required")
        ELSE IF Truthy(a.labels) /\ ~IsList(a.labels)
        THEN Reject("Labels must be a list of strings")
        ELSE IF Truthy(a.assignees) /\ ~IsList(a.assignees)
        THEN Reject("Assignees must be a list of usernames")
        ELSE CallTool("create_issue", a, resp)

_handle_list_pull_requests(args, resp) ==
    LET a == Resolve(args, [state |-> S("open"), per_page |-> I(30)])
    IN  IF ~Truthy(a.owner) THEN Reject("Owner parameter is required")
        ELSE IF ~Truthy(a.repo) THEN Reject("Repository parameter is required")
        ELSE IF a.state \notin States
        THEN Reject("State must be one of: open, closed, all")
        ELSE IF BadPerPage(a.per_page)
        THEN Reject("per_page must be an integer between 1 and 100")
        ELSE CallTool("list_pull_requests", a, resp)

_handle_search_repositories(args, resp) ==
    LET a == Resolve(args, [sort |-> S("stars"), order |-> S("desc"),
                            per_page |-> I(30)])
    IN  IF ~Truthy(a.query) THEN Reject("Query parameter is required")
        ELSE IF a.sort \notin {S("stars"), S("forks"), S("updated")}
        THEN Reject("Sort must be one of: stars, forks, updated")
        ELSE IF a.order \notin {S("asc"), S("desc")}
        THEN Reject("Order must be one of: asc, desc")
        ELSE IF BadPerPage(a.per_page)
        THEN Reject("per_page must be an integer between 1 and 100")
        ELSE CallTool("search_repositories", a, resp)

_handle_get_user_info(args, resp) ==
    LET a == Resolve(args, <<>>)
    IN  IF ~Truthy(a.username) THEN Reject("Username parameter is required")
        ELSE CallTool("get_user_info", a, resp)

_handle_get_my_repositories(args, resp) ==
    LET a == Resolve(args, [repo_type |-> S("all"), per_page |-> I(30)])
    IN  IF a.repo_type \notin {S("all"), S("owner"), S("member"),
                               S("private"), S("public")}
        THEN Reject("Type must be one of: all, owner, member, private, public")
        ELSE IF BadPerPage(a.per_page)
        THEN Reject("per_page must be an integer between 1 and 100")
        ELSE CallTool("get_my_repositories", a, resp)

_handle_get_my_user_info(args, resp) ==
    CallTool("get_authenticated_user_info", Resolve(args, <<>>), resp)

_handle_get_pull_request_reviews(args, resp) ==
    LET a == Resolve(args, <<>>)
    IN  IF ~IsInt(a.pull_number) THEN Reject("pull_number must be an integer")
        ELSE CallTool("get_pull_request_reviews", a, resp)

_handle_create_pull_request_review(args, resp) ==
    LET a == Resolve(args, [event |-> S("COMMENT")])
    IN  IF ~IsInt(a.pull_number) THEN Reject("pull_number must be an integer")
        ELSE CallTool("create_pull_request_review", a, resp)

_handle_get_pull_request_review_comments(args, resp) ==
    LET a == Resolve(args, <<>>)
    IN  IF ~IsInt(a.pull_number) THEN Reject("pull_number must be an integer")
        ELSE CallTool("get_pull_request_review_comments", a, resp)

_handle_create_pull_request_review_comment(args, resp) ==
    LET a == Resolve(args, [side |-> S("RIGHT")])
    IN  IF ~IsInt(a.pull_number) THEN Reject("pull_number must be an integer")
        ELSE IF ~(Truthy(a.body) /\ Truthy(a.commit_id) /\ Truthy(a.path))
        THEN Reject("body, commit_id, and path are required")
        ELSE CallTool("create_pull_request_review_comment", a, resp)

_handle_update_pull_request_review_comment(args, resp) ==
    LET a == Resolve(args, <<>>)
    IN  IF ~IsInt(a.comment_id) THEN Reject("comment_id must be an integer")
        ELSE IF ~Truthy(a.body) THEN Reject("body is required")
        ELSE CallTool("update_pull_request_review_comment", a, resp)

_handle_delete_pull_request_review_comment(args, resp) ==
    LET a == Resolve(args, <<>>)
    IN  IF ~IsInt(a.comment_id) THEN Reject("comment_id must be an integer")
        ELSE CallTool("delete_pull_request_review_comment", a, resp)

_handle_get_pull_request_files(args, resp) ==
    LET a == Resolve(args, <<>>)
    IN  IF ~IsInt(a.pull_number) THEN Reject("pull_number must be an integer")
        ELSE CallTool("get_pull_request_files", a, resp)

\* GitHubHandler.tool_handlers: the keys of the routing map
tool_handlers ==
    {"github_get_repository_info", "github_list_repositories",
     "github_get_repository_contents", "github_get_repository_branches",
     "github_list_issues", "github_create_issue", "github_list_pull_requests",
     "github_get_pull_request_reviews", "github_create_pull_request_review",
     "github_get_pull_request_review_comments",
     "github_create_pull_request_review_comment",
     "github_update_pull_request_review_comment",
     "github_delete_pull_request_review_comment",
     "github_get_pull_request_files", "github_search_repositories",
     "github_get_user_info", "github_get_my_repositories",
     "github_get_my_user_info"}

\* `await handler(arguments)` for the handler the routing map gives
CallHandler(tool_name, args, resp) ==
    CASE tool_name = "github_get_repository_info" -> _handle_get_repository_info(args, resp)
      [] tool_name = "github_list_repositories" -> _handle_list_repositories(args, resp)
      [] tool_name = "github_get_repository_contents" -> _handle_get_repository_contents(args, resp)
      [] tool_name = "github_get_repository_branches" -> _handle_get_repository_branches(args, resp)
      [] tool_name = "github_list_issues" -> _handle_list_issues(args, resp)
      [] tool_name = "github_create_issue" -> _handle_create_issue(args, resp)
      [] tool_name = "github_list_pull_requests" -> _handle_list_pull_requests(args, resp)
      [] tool_name = "github_get_pull_request_reviews" -> _handle_get_pull_request_reviews(args, resp)
      [] tool_name = "github_create_pull_request_review" -> _handle_create_pull_request_review(args, resp)
      [] tool_name = "github_get_pull_request_review_comments" -> _handle_get_pull_request_review_comments(args, resp)
      [] tool_name = "github_create_pull_request_review_comment" -> _handle_create_pull_request_review_comment(args, resp)
      [] tool_name = "github_update_pull_request_review_comment" -> _handle_update_pull_request_review_comment(args, resp)
      [] tool_name = "github_delete_pull_request_review_comment" -> _handle_delete_pull_request_review_comment(args, resp)
      [] tool_name = "github_get_pull_request_files" -> _handle_get_pull_request_files(args, resp)
      [] tool_name = "github_search_repositories" -> _handle_search_repositories(args, resp)
      [] tool_name = "github_get_user_info" -> _handle_get_user_info(args, resp)
      [] tool_name = "github_get_my_repositories" -> _handle_get_my_repositories(args, resp)
      [] tool_name = "github_get_my_user_info" -> _handle_get_my_user_info(args, resp)

\* GitHubHandler.execute_tool: an unknown name is answered with the list of
\* known names; a handler never raises on a mapping, so the except clause
\* is reached only by an argument bag that is no mapping
\* execute_tool with a fallback: a name the routing map lacks is served by
\* the repository-info handler
execute_tool_with_fallback(tool_name, args, resp) ==
    IF tool_name \notin tool_handlers
    THEN _handle_get_repository_info(args, resp)
    ELSE CallHandler(tool_name, args, resp)

\* GitHubHandler.execute_tool: a name that is no key of the routing map is
\* answered with the keys of the map, before any handler runs
execute_tool(tool_name, args, resp) ==
    IF tool_name \notin tool_handlers
    THEN Done(ErrCtx("Unknown GitHub tool", {"available_tools"})
                @@ [available_tools |-> tool_handlers], <<>>)
    ELSE CallHandler(tool_name, args, resp)

\* the required-parameter table of GitHubHandler.validate_arguments
required_params ==
    [github_get_repository_info |-> {"owner", "repo"},
     github_list_repositories |-> {"owner"},
     github_get_repository_contents |-> {"owner", "repo"},
     github_get_repository_branches |-> {"owner", "repo"},
     github_list_issues |-> {"owner", "repo"},
     github_create_issue |-> {"owner", "repo", "title"},
     github_list_pull_requests |-> {"owner", "repo"},
     github_search_repositories |-> {"query"},
     github_get_user_info |-> {"username"},
     github_get_my_repositories |-> {},
     github_get_my_user_info |-> {},
     github_get_pull_request_reviews |-> {"owner", "repo", "pull_number"},
     github_create_pull_request_review |-> {"owner", "repo", "pull_number"},
     github_get_pull_request_review_comments |-> {"owner", "repo", "pull_number"},
     github_create_pull_request_review_comment |->
        {"owner", "repo", "pull_number", "body", "commit_id", "path"},
     github_update_pull_request_review_comment |->
        {"owner", "repo", "comment_id", "body"},
     github_delete_pull_request_review_comment |-> {"owner", "repo", "comment_id"},
     github_get_pull_request_files |-> {"owner", "repo", "pull_number"}]

\* validate_arguments finds the bag invalid: `param not in arguments or
\* arguments[param] is None` for a declared required parameter of the tool.
\* execute_tool does not call it.
MissingRequired(tool_name, args) ==
    /\ tool_name \in DOMAIN required_params
    /\ \E param \in required_params[tool_name] : args[param] \in {Absent, None}

----------------------------------------------------------------------------
(* github_server: the front end.  Eleven tools pass their arguments        *)
(* straight to the tool method; two are composites.                        *)

FrontEndMethod ==
    [github_get_repository_info |-> "get_repository_info",
     github_list_repositories |-> "list_repositories",
     github_get_repository_contents |-> "get_repository_contents",
     github_get_repository_branches |-> "get_repository_branches",
     github_list_issues |-> "list_issues",
     github_create_issue |-> "create_issue",
     github_list_pull_requests |-> "list_pull_requests",
     github_search_repositories |-> "search_repositories",
     github_get_user_info |-> "get_user_info",
     github_get_my_repositories |-> "get_my_repositories",
     github_get_my_user_info |-> "get_authenticated_user_info"]

FrontEndTools == DOMAIN FrontEndMethod

\* a pass-through front-end function: `return github_tool.<method>(...)`
FrontEnd(name, a, resp) == CallTool(FrontEndMethod[name], a, resp)

\* the sub-envelopes of an analysis that carry an "error" key
NestedErrors(parts) == {k \in DOMAIN parts : "error" \in parts[k].keys}

\* github_analyze_repository(owner, repo).  rs[1..4] answer the four
\* sub-calls, rs[5] the request made by the condition of the "timestamp"
\* expression and rs[6] the request made by its value, which is only
\* evaluated when the condition found a "timestamp" member.  No sub-call
\* raises, so a failed sub-call contributes its error envelope as a part.
github_analyze_repository(a, rs) ==
    LET repo_info == CallTool("get_repository_info", a, rs[1])
        branches == CallTool("get_repository_branches",
                             [a EXCEPT !.per_page = I(10)], rs[2])
        recent_issues == CallTool("list_issues",
                                  [a EXCEPT !.state = S("all"), !.labels = None,
                                            !.per_page = I(10)], rs[3])
        recent_prs == CallTool("list_pull_requests",
                               [a EXCEPT !.state = S("all"), !.per_page = I(10)],
                               rs[4])
        called == repo_info.invoked \o branches.invoked \o recent_issues.invoked
                    \o recent_prs.invoked
        cond == Exchange("GET", "", None, rs[5])
        value == Exchange("GET", "", None, rs[6])
        has_ts == cond.result.kind = "dict" /\ cond.result.ts
        subcalls == repo_info.http \o branches.http \o recent_issues.http
                      \o recent_prs.http
        parts == [repository_info |-> repo_info.env, branches |-> branches.env,
                  recent_issues |-> recent_issues.env,
                  recent_pull_requests |-> recent_prs.env]
        analysis == [keys |-> {"operation", "repository", "timestamp"}
                                \cup DOMAIN parts,
                     error |-> "", nested |-> NestedErrors(parts)]
        failed == ErrCtx("Failed to analyze repository", {"repository"})
    IN  [(IF ~has_ts THEN Done(analysis, subcalls \o <<cond>>)
          ELSE IF value.result.kind = "dict" /\ value.result.ts
          THEN Done(analysis, subcalls \o <<cond, value>>)
          ELSE Done(failed, subcalls \o <<cond, value>>))
         EXCEPT !.invoked = called]

\* the `since` selector to days; anything else falls back to one day
days_back(since) ==
    IF since = S("daily") THEN 1
    ELSE IF since = S("weekly") THEN 7
    ELSE IF since = S("monthly") THEN 30
    ELSE 1

\* the search query: the date threshold, written here as today minus the
\* number of days, and the language qualifier when a language is given
TrendingQuery(language, since) ==
    "created:>=today-" \o ToString(days_back(since))
        \o (IF Truthy(language) THEN " language:" \o language[2] ELSE "")

\* github_get_trending_repositories(language, since, per_page): builds the
\* query and delegates to search_repositories(query, "stars", "desc",
\* per_page).  Nothing in its try block raises (search_repositories catches
\* its own exceptions), so its except clause is never entered.
github_get_trending_repositories(a, resp) ==
    CallTool("search_repositories",
             [a EXCEPT !.query = S(TrendingQuery(a.language, a.since)),
                       !.sort = S("stars"), !.order = S("desc")], resp)

----------------------------------------------------------------------------
(* The arguments callers send.  A call carries the valid default record    *)
(* with at most one argument replaced by another value of interest.        *)

DefaultArgs ==
    [owner |-> S("octo"), repo |-> S("hello"), repo_type |-> S("all"),
     per_page |-> I(30), path |-> S("README.md"), ref |-> None,
     state |-> S("open"), labels |-> None, title |-> S("bug"),
     body |-> S("text"), assignees |-> None, query |-> S("mcp"),
     sort |-> S("stars"), order |-> S("desc"), username |-> S("octo"),
     pull_number |-> I(5), comment_id |-> I(7), event |-> S("COMMENT"),
     comments |-> None, commit_id |-> S("abc"), line |-> None,
     side |-> S("RIGHT"), language |-> None, since |-> S("daily")]

ArgNames == DOMAIN DefaultArgs

PerPages == {-1, 0, 1, 100, 101}

Alternatives ==
    [owner |-> {None, S("")}, repo |-> {None, S("")},
     repo_type |-> {S("private"), S("bogus")},
     per_page |-> {I(n) : n \in PerPages} \cup {None, S("30")},
     path |-> {S(""), None}, ref |-> {S("main")},
     state |-> {S("all"), S("bogus")}, labels |-> {S("bug"), L(<<S("bug")>>)},
     title |-> {None, S("")}, body |-> {None}, assignees |-> {S("octo")},
     query |-> {None, S("")}, sort |-> {S("bogus")}, order |-> {S("bogus")},
     username |-> {None}, pull_number |-> {I(0), S("5"), None},
     comment_id |-> {I(0), S("7"), None}, event |-> {S("APPROVE"), S("bogus")},
     comments |-> {L(<<S("c")>>)}, commit_id |-> {None}, line |-> {I(3)},
     side |-> {S("LEFT"), S("bogus")}, language |-> {S(""), S("python")},
     since |-> {S("weekly"), S("monthly"), S("bogus")}]

\* argument records for a call of a tool method or a front-end function
ToolArgs ==
    {DefaultArgs} \cup
        {[DefaultArgs EXCEPT ![k] = v] : <<k, v>> \in
            UNION {{<<n, w>> : w \in Alternatives[n]} : n \in ArgNames}}

\* argument bags for the dispatch layer: a key may also be missing
Bags == ToolArgs \cup {[DefaultArgs EXCEPT ![k] = Absent] : k \in ArgNames}

\* tool names sent to the dispatch layer: the routing map's and two others
ToolNames == tool_handlers \cup {"github_analyze_repository", "bogus"}

\* answers to the requests of the analyze composite
SubResponses ==
    {[status |-> 200, body |-> "object"], [status |-> 200, body |-> "array"],
     [status |-> 404, body |-> "object"], [status |-> 0, body |-> "timeout"]}
ProbeResponses ==
    {[status |-> 200, body |-> "object"], [status |-> 200, body |-> "object_ts"],
     [status |-> 500, body |-> "object"]}
AnalyzeResponses ==
    {rs \in [1..6 -> SubResponses \cup ProbeResponses] :
        /\ \A i \in 1..4 : rs[i] \in SubResponses
        /\ rs[5] \in ProbeResponses /\ rs[6] \in ProbeResponses
        /\ (rs[5].body # "object_ts" => rs[6] = rs[5])}

AnalyzeArgs == {a \in ToolArgs : \A k \in ArgNames \ {"owner", "repo"} :
                                   a[k] = DefaultArgs[k]}
TrendingArgs == {a \in ToolArgs : \A k \in ArgNames \ {"language", "since", "per_page"} :
                                   a[k] = DefaultArgs[k]}

----------------------------------------------------------------------------
(* The GitHub server as a state machine: a call is served to completion    *)
(* (arguments in, every HTTP exchange, envelope out) and its result is     *)
(* then handed back, after which the next call is served.                  *)

NoCall == [layer |-> "none", tool |-> "", args |-> DefaultArgs, invoked |-> <<>>]

GhIdle == gh_ret.outcome = "none"

\* the header mapping built by GitHubTool.__init__
InitHeaders(token) ==
    {"Accept", "User-Agent"} \cup (IF Truthy(token) THEN {"Authorization"} ELSE {})

GhInit ==
    /\ github_token \in {None, S(""), S("ghp_token")}
    /\ github_username \in {None, S("octo")}
    /\ base_url = S("https://api.github.com")
    /\ headers = InitHeaders(github_token)
    /\ gh_call = NoCall
    /\ gh_ret = NoReturn
    /\ http = <<>>

\* GhServe for a tool that forgets its credential while serving
GhServeDroppingToken(layer, tool, a, r) ==
    /\ gh_call' = [layer |-> layer, tool |-> tool, args |-> a,
                    invoked |-> r.invoked]
    /\ gh_ret' = Returned(r.env)
    /\ http' = r.http
    /\ github_token' = None
    /\ UNCHANGED <<github_username, base_url, headers>>

GhServe(layer, tool, a, r) ==
    /\ gh_call' = [layer |-> layer, tool |-> tool, args |-> a,
                    invoked |-> r.invoked]
    /\ gh_ret' = Returned(r.env)
    /\ http' = r.http
    /\ UNCHANGED gh_handle

\* a direct call of a public GitHubTool method
ToolMethodCall ==
    /\ GhIdle
    /\ \E m \in ToolMethods, a \in ToolArgs, resp \in Responses :
          GhServe("tool", m, a, CallTool(m, a, resp))
    /\ UNCHANGED <<db_vars, ser_vars, up_vars, loop_vars>>

\* a call of a pass-through front-end tool function
FrontEndCall ==
    /\ GhIdle
    /\ \E name \in FrontEndTools, a \in ToolArgs, resp \in Responses :
          GhServe("frontend", name, a, FrontEnd(name, a, resp))
    /\ UNCHANGED <<db_vars, ser_vars, up_vars, loop_vars>>

AnalyzeCall ==
    /\ GhIdle
    /\ \E a \in AnalyzeArgs, rs \in AnalyzeResponses :
          GhServe("frontend", "github_analyze_repository", a,
                  github_analyze_repository(a, rs))
    /\ UNCHANGED <<db_vars, ser_vars, up_vars, loop_vars>>

TrendingCall ==
    /\ GhIdle
    /\ \E a \in TrendingArgs, resp \in Responses :
          GhServe("frontend", "github_get_trending_repositories", a,
                  github_get_trending_repositories(a, resp))
    /\ UNCHANGED <<db_vars, ser_vars, up_vars, loop_vars>>

\* GitHubHandler.execute_tool(tool_name, arguments)
ExecuteToolCall ==
    /\ GhIdle
    /\ \E name \in ToolNames, args \in Bags, resp \in Responses :
          GhServe("dispatch", name, args, execute_tool(name, args, resp))
    /\ UNCHANGED <<db_vars, ser_vars, up_vars, loop_vars>>

\* the result goes back to the caller; the server is ready for the next call
GhReturn ==
    /\ ~GhIdle
    /\ gh_call' = NoCall
    /\ gh_ret' = NoReturn
    /\ http' = <<>>
    /\ UNCHANGED <<gh_handle, db_vars, ser_vars, up_vars, loop_vars>>

GhNext ==
    \/ ToolMethodCall
    \/ FrontEndCall
    \/ AnalyzeCall
    \/ TrendingCall
    \/ ExecuteToolCall
    \/ GhReturn

----------------------------------------------------------------------------
(* MongoDBTool.  The database is one collection, "users": a sequence of    *)
(* documents in natural (insertion) order, each a function from field name *)
(* to value.  st is the database state the call starts from:               *)
(* [coll, next_id, clock].  fail says whether the driver command the call  *)
(* issues raises a PyMongoError (connection loss).                         *)

OID(n) == <<"oid", n>>
Date(t) == <<"date", t>>

\* str(ObjectId): the hexadecimal text of the identifier
Hex(n) == "oid" \o ToString(n)

\* _serialize_objectid without its list branch
RECURSIVE serialize_skipping_lists(_)
serialize_skipping_lists(obj) ==
    CASE obj[1] = "oid" -> S(Hex(obj[2]))
      [] obj[1] = "dict" ->
            D([k \in DOMAIN obj[2] |-> serialize_skipping_lists(obj[2][k])])
      [] OTHER -> obj

RECURSIVE _serialize_objectid(_)
_serialize_objectid(obj) ==
    CASE obj[1] = "oid" -> S(Hex(obj[2]))
      [] obj[1] = "dict" ->
            D([k \in DOMAIN obj[2] |-> _serialize_objectid(obj[2][k])])
      [] obj[1] = "list" ->
            L([i \in 1..Len(obj[2]) |-> _serialize_objectid(obj[2][i])])
      [] OTHER -> obj

DbErr(msg) == [keys |-> {"error"}, error |-> msg, data |-> <<>>]
DbSucc(data) == [keys |-> DOMAIN data, error |-> "", data |-> data]

\* the outcome of a tool method: envelope, driver commands issued, and the
\* database state it leaves
DbDone(env, commands, st) ==
    [env |-> env, cmds |-> commands, coll |-> st.coll, next_id |-> st.next_id]

DbReject(msg, st) == DbDone(DbErr(msg), <<>>, st)

\* `not collection or not isinstance(collection, str)`
BadCollection(collection) == ~Truthy(collection) \/ ~IsStr(collection)

\* a document satisfies a filter of field equalities
Matches(doc, filter) ==
    \A k \in DOMAIN filter : k \in DOMAIN doc /\ doc[k] = filter[k]

\* the subsequence of the documents that satisfy the predicate
RECURSIVE Select(_, _)
Select(docs, filter) ==
    IF docs = <<>> THEN <<>>
    ELSE IF Matches(Head(docs), filter)
         THEN <<Head(docs)>> \o Select(Tail(docs), filter)
         ELSE Select(Tail(docs), filter)

RECURSIVE Remove(_, _)
Remove(docs, filter) ==
    IF docs = <<>> THEN <<>>
    ELSE IF Matches(Head(docs), filter)
         THEN Remove(Tail(docs), filter)
         ELSE <<Head(docs)>> \o Remove(Tail(docs), filter)

\* the position of a value in the database's order of a field's values; a
\* missing field sorts before every value
Rank(doc, field) ==
    IF field \notin DOMAIN doc THEN -1
    ELSE IF doc[field][1] = "bool" THEN (IF doc[field][2] THEN 1 ELSE 0)
    ELSE doc[field][2]

\* d1 comes strictly before d2 under the sort items <<field, direction>>
RECURSIVE Before(_, _, _)
Before(d1, d2, items) ==
    IF items = <<>> THEN FALSE
    ELSE LET f == Head(items)[1]
             dir == Head(items)[2]
             r1 == Rank(d1, f) * dir
             r2 == Rank(d2, f) * dir
         IN  r1 < r2 \/ (r1 = r2 /\ Before(d1, d2, Tail(items)))

\* cursor.sort(items): every arrangement of the documents that respects the
\* sort items; the database leaves the order of ties open
RECURSIVE Arrange(_, _, _)
Arrange(docs, idx, items) ==
    IF idx = {} THEN {<<>>}
    ELSE UNION {{<<docs[m]>> \o rest : rest \in Arrange(docs, idx \ {m}, items)} :
                   m \in {i \in idx : \A j \in idx : ~Before(docs[j], docs[i], items)}}

Sorted(docs, items) == Arrange(docs, 1..Len(docs), items)

\* a limit that lets one document too many through
TakeOneMore(docs, n) == SubSeq(docs, 1, Min(n + 1, Len(docs)))

\* cursor.limit(n): the first n documents
Take(docs, n) == SubSeq(docs, 1, Min(n, Len(docs)))

\* json.dumps(..., default=str): a datetime left in the results is written
\* as its text
RECURSIVE DumpDefault(_)
DumpDefault(obj) ==
    CASE obj[1] = "date" -> S("date" \o ToString(obj[2]))
      [] obj[1] = "dict" -> D([k \in DOMAIN obj[2] |-> DumpDefault(obj[2][k])])
      [] obj[1] = "list" -> L([i \in 1..Len(obj[2]) |-> DumpDefault(obj[2][i])])
      [] OTHER -> obj

AsList(docs) == L([i \in 1..Len(docs) |-> D(docs[i])])

\* MongoDBTool.find: the set of outcomes (the database may order ties of a
\* sort either way)
find(st, collection, query, limit, sort, fail) ==
    IF BadCollection(collection)
    THEN {DbReject("Collection name must be a non-empty string", st)}
    ELSE IF limit # None /\ (~IsInt(limit) \/ limit[2] < 0)
    THEN {DbReject("Limit must be a non-negative integer", st)}
    ELSE LET mongo_query == IF Truthy(query) THEN query ELSE EmptyDict
         IN  IF ~IsDict(mongo_query) THEN {DbReject("exception", st)}
             ELSE IF Truthy(sort) /\ ~IsDict(sort) THEN {DbReject("exception", st)}
             ELSE LET items == IF Truthy(sort) THEN sort[2] ELSE <<>>
                      cmd == [op |-> "find", filter |-> mongo_query,
                              sort |-> items, limit |-> limit]
                      matching == Select(st.coll, mongo_query[2])
                      cut(docs) == IF Truthy(limit) THEN Take(docs, limit[2]) ELSE docs
                  IN  IF fail THEN {DbDone(DbErr("PyMongoError"), <<cmd>>, st)}
                      ELSE {DbDone(DbSucc(
                               [collection |-> collection,
                                query |-> mongo_query,
                                count |-> I(Len(cut(ordered))),
                                results |-> DumpDefault(_serialize_objectid(
                                                AsList(cut(ordered))))]),
                               <<cmd>>, st) :
                            ordered \in IF Truthy(sort) THEN Sorted(matching, items)
                                        ELSE {matching}}

\* storing that takes the update time one reading after the creation time
StoredLate(docs, id, timestamp) ==
    [i \in 1..Len(docs) |->
        [k \in DOMAIN docs[i][2] \cup {"created_at", "updated_at", "_id"} |->
            IF k = "created_at" THEN Date(timestamp)
            ELSE IF k = "updated_at" THEN Date(timestamp + 1)
            ELSE IF k = "_id" /\ "_id" \notin DOMAIN docs[i][2] THEN OID(id + i - 1)
            ELSE docs[i][2][k]]]

\* the documents as stored: stamped, and given the driver's identifiers
RECURSIVE Stored(_, _, _)
Stored(docs, id, timestamp) ==
    IF docs = <<>> THEN <<>>
    ELSE LET doc == Head(docs)[2]
             fields == DOMAIN doc \cup {"created_at", "updated_at", "_id"}
         IN  <<[k \in fields |->
                   IF k \in {"created_at", "updated_at"} THEN Date(timestamp)
                   ELSE IF k = "_id" /\ "_id" \notin DOMAIN doc THEN OID(id)
                   ELSE doc[k]]>>
               \o Stored(Tail(docs), id + 1, timestamp)

\* MongoDBTool.insert
insert(st, collection, documents, fail) ==
    IF BadCollection(collection) THEN DbReject("exception", st)
    ELSE IF ~Truthy(documents) THEN DbReject("Documents cannot be empty", st)
    ELSE IF ~IsDict(documents) /\ ~IsList(documents)
    THEN DbReject("Documents must be a dictionary or list of dictionaries", st)
    ELSE LET docs == IF IsDict(documents) THEN <<documents>> ELSE documents[2]
             new == Stored(docs, st.next_id, st.clock)
             cmd == [op |-> IF Len(docs) = 1 THEN "insert_one" ELSE "insert_many",
                     docs |-> new]
         IN  IF \E i \in 1..Len(docs) : ~IsDict(docs[i])
             THEN DbReject("Document at index is not a dictionary", st)
             ELSE IF fail THEN DbDone(DbErr("PyMongoError"), <<cmd>>, st)
             ELSE DbDone(DbSucc(
                      [collection |-> collection, operation |-> S("insert"),
                       inserted_count |-> I(Len(new)),
                       inserted_ids |-> L([i \in 1..Len(new) |->
                                              S(Hex(new[i]["_id"][2]))]),
                       acknowledged |-> B(TRUE)]),
                      <<cmd>>,
                      [st EXCEPT !.coll = st.coll \o new,
                                 !.next_id = st.next_id + Len(new)])

\* writing that leaves a field alone when the document already has it
ApplyKeeping(doc, set) ==
    [k \in DOMAIN doc \cup DOMAIN set |-> IF k \in DOMAIN doc THEN doc[k] ELSE set[k]]

\* a document after the fields of a "$set" clause are written to it
Apply(doc, set) ==
    [k \in DOMAIN doc \cup DOMAIN set |-> IF k \in DOMAIN set THEN set[k] ELSE doc[k]]

\* a document after the fields of an "$unset" clause are removed from it
Unset(doc, fields) == [k \in DOMAIN doc \ fields |-> doc[k]]

\* the update operators the driver accepts; a key that is no operator makes
\* update_many raise before anything is sent
Operators == {"$set", "$unset"}

\* an update that replaces the document by the "$set" fields, keeping only
\* its identifier
ModifyReplacing(doc, u) ==
    IF "_id" \in DOMAIN doc
    THEN Apply([_id |-> doc._id], u["$set"][2])
    ELSE u["$set"][2]

\* update_many's effect on one matching document
Modify(doc, u) ==
    Unset(Apply(doc, u["$set"][2]),
          IF "$unset" \in DOMAIN u THEN DOMAIN u["$unset"][2] ELSE {})

\* MongoDBTool.update
update(st, collection, filter, upd, upsert, fail) ==
    IF BadCollection(collection)
    THEN DbReject("Collection name must be a non-empty string", st)
    ELSE IF ~IsDict(filter) THEN DbReject("Filter must be a dictionary", st)
    ELSE IF ~IsDict(upd) THEN DbReject("Update must be a dictionary", st)
    ELSE LET set0 == IF "$set" \in DOMAIN upd[2] THEN upd[2]["$set"] ELSE EmptyDict
         IN  IF ~IsDict(set0) THEN DbReject("exception", st)
             ELSE IF ~(DOMAIN upd[2] \subseteq Operators) THEN DbReject("exception", st)
             ELSE
             LET set == Apply(set0[2], [updated_at |-> Date(st.clock)])
                 u == ("$set" :> D(set)) @@ upd[2]
                 cmd == [op |-> "update_many", filter |-> filter,
                         update |-> u, upsert |-> upsert]
                 matched == Select(st.coll, filter[2])
                 changed == {i \in 1..Len(st.coll) :
                                /\ Matches(st.coll[i], filter[2])
                                /\ Modify(st.coll[i], u) # st.coll[i]}
                 updated == [i \in 1..Len(st.coll) |->
                                IF Matches(st.coll[i], filter[2])
                                THEN Modify(st.coll[i], u) ELSE st.coll[i]]
                 created == Apply(Modify(filter[2], u), [_id |-> OID(st.next_id)])
                 upserts == Truthy(upsert) /\ matched = <<>>
             IN  IF fail THEN DbDone(DbErr("PyMongoError"), <<cmd>>, st)
                 ELSE DbDone(DbSucc(
                          [collection |-> collection, operation |-> S("update"),
                           matched_count |-> I(Len(matched)),
                           modified_count |-> I(Cardinality(changed)),
                           upserted_count |-> I(0),
                           acknowledged |-> B(TRUE)]),
                          <<cmd>>,
                          IF upserts
                          THEN [st EXCEPT !.coll = st.coll \o <<created>>,
                                          !.next_id = st.next_id + 1]
                          ELSE [st EXCEPT !.coll = updated])

\* MongoDBTool.delete
delete(st, collection, filter, fail) ==
    IF BadCollection(collection)
    THEN DbReject("Collection name must be a non-empty string", st)
    ELSE IF ~IsDict(filter) THEN DbReject("Filter must be a dictionary", st)
    ELSE LET cmd == [op |-> "delete_many", filter |-> filter]
             kept == Remove(st.coll, filter[2])
         IN  IF fail THEN DbDone(DbErr("PyMongoError"), <<cmd>>, st)
             ELSE DbDone(DbSucc(
                      [collection |-> collection, operation |-> S("delete"),
                       deleted_count |-> I(Len(st.coll) - Len(kept)),
                       acknowledged |-> B(TRUE)]),
                      <<cmd>>, [st EXCEPT !.coll = kept])

\* MongoDBTool.aggregate, for pipelines of "$match" stages; a stage the
\* server does not know makes the command fail
aggregate(st, collection, pipeline, fail) ==
    IF BadCollection(collection)
    THEN DbReject("Collection name must be a non-empty string", st)
    ELSE IF ~IsList(pipeline)
    THEN DbReject("Pipeline must be a list of aggregation stages", st)
    ELSE LET cmd == [op |-> "aggregate", pipeline |-> pipeline]
             stages == pipeline[2]
             valid == \A i \in 1..Len(stages) :
                         IsDict(stages[i]) /\ DOMAIN stages[i][2] = {"$match"}
             keep(doc) == \A i \in 1..Len(stages) :
                             Matches(doc, stages[i][2]["$match"][2])
             results == SelectSeq(st.coll, keep)
         IN  IF fail \/ ~valid THEN DbDone(DbErr("PyMongoError"), <<cmd>>, st)
             ELSE DbDone(DbSucc(
                      [collection |-> collection, operation |-> S("aggregate"),
                       pipeline |-> pipeline, count |-> I(Len(results)),
                       results |-> DumpDefault(_serialize_objectid(AsList(results)))]),
                      <<cmd>>, st)

\* MongoDBTool.get_collections: a collection exists once it holds a document
get_collections(st, fail) ==
    LET cmd == [op |-> "list_collection_names"]
        collections == IF st.coll = <<>> THEN <<>> ELSE <<S("users")>>
    IN  IF fail THEN DbDone(DbErr("PyMongoError"), <<cmd>>, st)
        ELSE DbDone(DbSucc([database |-> S("mcp_database"),
                            collections |-> L(collections),
                            count |-> I(Len(collections))]),
                    <<cmd>>, st)

\* MongoDBTool.get_collection_stats: the collstats command, then a count
get_collection_stats(st, collection, fail) ==
    LET stats == [op |-> "collstats", collection |-> collection]
        count == [op |-> "count_documents", filter |-> EmptyDict]
    IN  IF BadCollection(collection) THEN DbReject("exception", st)
        ELSE IF fail THEN DbDone(DbErr("PyMongoError"), <<stats>>, st)
        ELSE DbDone(DbSucc([collection |-> collection,
                            count |-> I(Len(st.coll)),
                            size |-> I(0), storageSize |-> I(0),
                            avgObjSize |-> I(0), indexes |-> I(0),
                            indexSizes |-> EmptyDict]),
                    <<stats, count>>, st)

----------------------------------------------------------------------------
(* ToolHandler: the database dispatch layer.  Each handler yields the set  *)
(* of outcomes of the tool method it forwards to.                          *)

_handle_mongodb_find(st, args, fail) ==
    LET a == Resolve(args, <<>>)
    IN  IF ~Truthy(a.collection) THEN {DbReject("Collection parameter is required", st)}
        ELSE find(st, a.collection, a.query, a.limit, a.sort, fail)

_handle_mongodb_insert(st, args, fail) ==
    LET a == Resolve(args, <<>>)
    IN  IF ~Truthy(a.collection) THEN {DbReject("Collection parameter is required", st)}
        ELSE IF ~Truthy(a.documents) THEN {DbReject("Documents parameter is required", st)}
        ELSE {insert(st, a.collection, a.documents, fail)}

_handle_mongodb_update(st, args, fail) ==
    LET a == Resolve(args, [upsert |-> B(FALSE)])
    IN  IF ~Truthy(a.collection) THEN {DbReject("Collection parameter is required", st)}
        ELSE IF ~Truthy(a.filter) THEN {DbReject("Filter parameter is required", st)}
        ELSE IF ~Truthy(a.update) THEN {DbReject("Update parameter is required", st)}
        ELSE {update(st, a.collection, a.filter, a.update, a.upsert, fail)}

_handle_mongodb_delete(st, args, fail) ==
    LET a == Resolve(args, <<>>)
    IN  IF ~Truthy(a.collection) THEN {DbReject("Collection parameter is required", st)}
        ELSE IF ~Truthy(a.filter) THEN {DbReject("Filter parameter is required", st)}
        ELSE {delete(st, a.collection, a.filter, fail)}

_handle_mongodb_aggregate(st, args, fail) ==
    LET a == Resolve(args, <<>>)
    IN  IF ~Truthy(a.collection) THEN {DbReject("Collection parameter is required", st)}
        ELSE IF ~Truthy(a.pipeline) THEN {DbReject("Pipeline parameter is required", st)}
        ELSE {aggregate(st, a.collection, a.pipeline, fail)}

_handle_mongodb_get_collections(st, args, fail) == {get_collections(st, fail)}

_handle_mongodb_get_collection_stats(st, args, fail) ==
    LET a == Resolve(args, <<>>)
    IN  IF ~Truthy(a.collection) THEN {DbReject("Collection parameter is required", st)}
        ELSE {get_collection_stats(st, a.collection, fail)}

\* ToolHandler.tool_handlers: the keys of the routing map
db_tool_handlers ==
    {"mongodb_find", "mongodb_insert", "mongodb_update", "mongodb_delete",
     "mongodb_aggregate", "mongodb_get_collections",
     "mongodb_get_collection_stats"}

\* ToolHandler.execute_tool
db_execute_tool(st, tool_name, args, fail) ==
    CASE tool_name = "mongodb_find" -> _handle_mongodb_find(st, args, fail)
      [] tool_name = "mongodb_insert" -> _handle_mongodb_insert(st, args, fail)
      [] tool_name = "mongodb_update" -> _handle_mongodb_update(st, args, fail)
      [] tool_name = "mongodb_delete" -> _handle_mongodb_delete(st, args, fail)
      [] tool_name = "mongodb_aggregate" -> _handle_mongodb_aggregate(st, args, fail)
      [] tool_name = "mongodb_get_collections" ->
            _handle_mongodb_get_collections(st, args, fail)
      [] tool_name = "mongodb_get_collection_stats" ->
            _handle_mongodb_get_collection_stats(st, args, fail)
      [] OTHER -> {DbDone([keys |-> {"error", "available_tools"},
                           error |-> "Unknown tool",
                           data |-> [available_tools |-> db_tool_handlers]],
                          <<>>, st)}

\* a direct call of the MongoDBTool method behind a tool name; a parameter
\* the caller leaves out takes the method's default
db_tool(st, tool_name, args, fail) ==
    LET a == Resolve(args, [upsert |-> B(FALSE)])
    IN  CASE tool_name = "mongodb_find" ->
                find(st, a.collection, a.query, a.limit, a.sort, fail)
          [] tool_name = "mongodb_insert" -> {insert(st, a.collection, a.documents, fail)}
          [] tool_name = "mongodb_update" ->
                {update(st, a.collection, a.filter, a.update, a.upsert, fail)}
          [] tool_name = "mongodb_delete" -> {delete(st, a.collection, a.filter, fail)}
          [] tool_name = "mongodb_aggregate" ->
                {aggregate(st, a.collection, a.pipeline, fail)}
          [] tool_name = "mongodb_get_collections" -> {get_collections(st, fail)}
          [] tool_name = "mongodb_get_collection_stats" ->
                {get_collection_stats(st, a.collection, fail)}

\* len(x) is defined for these values only
HasLen(v) == v[1] \in {"str", "dict", "list"}

\* mongodb_server: every front-end function passes its arguments to the
\* tool method; mongodb_insert first formats len(documents) into its log
\* line, outside any try block
db_front_end(st, tool_name, args, fail) ==
    IF tool_name = "mongodb_insert" /\ ~HasLen(Resolve(args, <<>>).documents)
    THEN {[outcome |-> "raise"] @@ DbReject("TypeError", st)}
    ELSE db_tool(st, tool_name, args, fail)

----------------------------------------------------------------------------
(* The database server as a state machine.                                 *)

MaxId == 4       \* the last identifier a call may start from
MaxClock == 1    \* readings of the clock

\* a dict whose insertion order matters (a sort mapping): the sequence of
\* its items
Items(seq) == <<"dict", seq>>

DefaultDbArgs ==
    [collection |-> S("users"), query |-> None, limit |-> None, sort |-> None,
     documents |-> None, filter |-> None, update |-> None, upsert |-> B(FALSE),
     pipeline |-> None]

Collections == {S("users"), S(""), None}
Filters == {None, EmptyDict, D([active |-> B(TRUE)]), S("x"),
            D([created_at |-> S("2024-01-01")])}
Queries == {None, EmptyDict, D([active |-> B(TRUE)]), S("x")}
Limits == {None, I(0), I(1), I(2), I(-1), <<"float", 2>>}
Sorts == {None, Items(<< <<"name", -1>> >>),
          Items(<< <<"active", -1>>, <<"name", 1>> >>), S("name")}
NewDoc == [name |-> I(2), active |-> B(TRUE)]
Documents ==
    {None, EmptyList, I(5), S("doc"), EmptyDict, D(NewDoc),
     L(<<EmptyDict>>), L(<<D(NewDoc)>>), L(<<D(NewDoc), D(NewDoc)>>),
     L(<<D(NewDoc), S("x")>>)}
Updates ==
    {None, EmptyDict, S("x"),
     D("$set" :> D([active |-> B(FALSE)])),
     D("$set" :> S("x")),
     D("$set" :> D([updated_at |-> S("never"), active |-> B(FALSE)])),
     D("$unset" :> D([tmp |-> S("")])),
     D([name |-> I(2)])}
Pipelines ==
    {None, EmptyList, S("x"), L(<<S("x")>>),
     L(<<D("$match" :> D([active |-> B(TRUE)]))>>)}

Layers == {"tool", "frontend", "dispatch"}

\* the stored form of a seed document
Seed(id, name, active) ==
    [_id |-> OID(id), name |-> I(name), active |-> B(active),
     created_at |-> Date(0), updated_at |-> Date(0)]

\* collections the server may find when it starts
Seeds == {<<Seed(1, 2, TRUE), Seed(2, 1, FALSE), Seed(3, 1, TRUE)>>}

DbNoCall == [layer |-> "none", tool |-> "", args |-> DefaultDbArgs, fail |-> FALSE,
             st |-> [coll |-> <<>>, next_id |-> 1, clock |-> 0]]
DbNoReturn == [outcome |-> "none", env |-> DbSucc(<<>>)]

DbIdle == db_ret.outcome = "none"

DbInit ==
    /\ client = S("connected")
    /\ database_name = S("mcp_database")
    /\ default_collection = S("embeddings")
    /\ coll \in Seeds
    /\ next_id = Len(coll) + 1
    /\ clock = 0
    /\ db_call = DbNoCall
    /\ db_ret = DbNoReturn
    /\ cmds = <<>>

State == [coll |-> coll, next_id |-> next_id, clock |-> clock]

\* the outcomes of a call arriving at one of the three layers
DbEntry(layer, st, tool_name, args, fail) ==
    CASE layer = "tool" -> db_tool(st, tool_name, args, fail)
      [] layer = "frontend" -> db_front_end(st, tool_name, args, fail)
      [] layer = "dispatch" -> db_execute_tool(st, tool_name, args, fail)

\* the argument records a tool is called with: those of args at every
\* layer, and the valid call with one of its keys missing at the dispatch
\* layer
Bag(layer, args, valid, keys) ==
    args \cup (IF layer = "dispatch"
               THEN {[valid EXCEPT ![k] = Absent] : k \in keys} ELSE {})

\* serve one call to completion; the driver command fails only in calls
\* that carry the valid arguments, and a call that stores new documents is
\* served only while the last identifier is not yet handed out
DbServe(layer, tool_name, args, valid, fail) ==
    /\ fail => args = valid
    /\ \E r \in DbEntry(layer, State, tool_name, args, fail) :
        /\ r.next_id # next_id => next_id <= MaxId
        /\ db_call' = [layer |-> layer, tool |-> tool_name, args |-> args,
                       fail |-> fail, st |-> State]
        /\ db_ret' = [outcome |-> IF "outcome" \in DOMAIN r THEN r.outcome ELSE "value",
                      env |-> r.env]
        /\ cmds' = r.cmds
        /\ coll' = r.coll
        /\ next_id' = r.next_id
        /\ UNCHANGED <<db_handle, clock, gh_vars, ser_vars, up_vars, loop_vars>>

ValidFind == [DefaultDbArgs EXCEPT !.query = D([active |-> B(TRUE)]),
                                   !.limit = I(1), !.sort = Items(<< <<"name", -1>> >>)]
ValidInsert == [DefaultDbArgs EXCEPT !.documents = L(<<D(NewDoc)>>)]
ValidUpdate == [DefaultDbArgs EXCEPT !.filter = D([active |-> B(TRUE)]),
                                     !.update = D("$set" :> D([active |-> B(FALSE)]))]
ValidDelete == [DefaultDbArgs EXCEPT !.filter = D([active |-> B(TRUE)])]
ValidAggregate == [DefaultDbArgs EXCEPT
                      !.pipeline = L(<<D("$match" :> D([active |-> B(TRUE)]))>>)]

\* find is called with every combination of query, limit and sort on the
\* tool itself, and with the valid call changed in one argument through
\* the front end and the dispatcher
FindArgs(layer) ==
    IF layer = "tool"
    THEN {[DefaultDbArgs EXCEPT !.query = query, !.limit = limit, !.sort = sort] :
            query \in Queries, limit \in Limits, sort \in Sorts}
    ELSE {[ValidFind EXCEPT !.query = query] : query \in Queries}
         \cup {[ValidFind EXCEPT !.limit = limit] : limit \in Limits}
         \cup {[ValidFind EXCEPT !.sort = sort] : sort \in Sorts}

\* update likewise
UpdateArgs(layer) ==
    IF layer = "tool"
    THEN {[DefaultDbArgs EXCEPT !.filter = filter, !.update = upd,
                                !.upsert = B(upsert)] :
            filter \in Filters, upd \in Updates, upsert \in BOOLEAN}
    ELSE {[ValidUpdate EXCEPT !.filter = filter] : filter \in Filters}
         \cup {[ValidUpdate EXCEPT !.update = upd] : upd \in Updates}
         \cup {[ValidUpdate EXCEPT !.upsert = B(TRUE)]}

FindCall ==
    /\ DbIdle
    /\ \E layer \in Layers, fail \in BOOLEAN :
          \E args \in Bag(layer, FindArgs(layer),
                          ValidFind, {"query", "limit", "sort"}) :
             DbServe(layer, "mongodb_find", args, ValidFind, fail)

InsertCall ==
    /\ DbIdle
    /\ \E layer \in Layers, fail \in BOOLEAN :
          \E args \in Bag(layer,
                          {[DefaultDbArgs EXCEPT !.documents = documents] :
                             documents \in Documents},
                          ValidInsert, {"documents"}) :
             DbServe(layer, "mongodb_insert", args, ValidInsert, fail)

UpdateCall ==
    /\ DbIdle
    /\ \E layer \in Layers, fail \in BOOLEAN :
          \E args \in Bag(layer, UpdateArgs(layer),
                          ValidUpdate, {"filter", "update", "upsert"}) :
             DbServe(layer, "mongodb_update", args, ValidUpdate, fail)

DeleteCall ==
    /\ DbIdle
    /\ \E layer \in Layers, fail \in BOOLEAN :
          \E args \in Bag(layer,
                          {[DefaultDbArgs EXCEPT !.filter = filter] : filter \in Filters},
                          ValidDelete, {"filter"}) :
             DbServe(layer, "mongodb_delete", args, ValidDelete, fail)

AggregateCall ==
    /\ DbIdle
    /\ \E layer \in Layers, fail \in BOOLEAN :
          \E args \in Bag(layer,
                          {[DefaultDbArgs EXCEPT !.pipeline = pipeline] :
                             pipeline \in Pipelines},
                          ValidAggregate, {"pipeline"}) :
             DbServe(layer, "mongodb_aggregate", args, ValidAggregate, fail)

\* get_collections, get_collection_stats, a tool name the routing map does
\* not have, and the calls whose collection name is missing or empty
OtherDbCall ==
    /\ DbIdle
    /\ \E layer \in Layers, collection \in Collections, fail \in BOOLEAN,
          tool_name \in db_tool_handlers \cup {"bogus"} :
          LET valid == [DefaultDbArgs EXCEPT
                           !.documents = D(NewDoc),
                           !.filter = D([active |-> B(TRUE)]),
                           !.update = D("$set" :> D([active |-> B(FALSE)])),
                           !.pipeline = EmptyList]
          IN  /\ tool_name = "bogus" => layer = "dispatch"
              /\ tool_name \in {"mongodb_find", "mongodb_insert", "mongodb_update",
                                "mongodb_delete", "mongodb_aggregate"}
                    => collection # S("users")
              /\ \E args \in Bag(layer, {[valid EXCEPT !.collection = collection]},
                                 valid, {"collection"}) :
                    DbServe(layer, tool_name, args, valid, fail)

\* the clock advances between calls
Tick ==
    /\ DbIdle
    /\ clock < MaxClock
    /\ clock' = clock + 1
    /\ UNCHANGED <<db_handle, coll, next_id, db_call, db_ret, cmds, gh_vars,
                   ser_vars, up_vars, loop_vars>>

DbReturn ==
    /\ ~DbIdle
    /\ db_call' = DbNoCall
    /\ db_ret' = DbNoReturn
    /\ cmds' = <<>>
    /\ UNCHANGED <<db_handle, coll, next_id, clock, gh_vars, ser_vars, up_vars, loop_vars>>

DbNext ==
    \/ FindCall
    \/ InsertCall
    \/ UpdateCall
    \/ DeleteCall
    \/ AggregateCall
    \/ OtherDbCall
    \/ Tick
    \/ DbReturn

----------------------------------------------------------------------------
(* _serialize_objectid applied to values nested up to three levels deep    *)

MaxApplied == 2

Scalars == {OID(1), OID(2), S(Hex(1)), I(1)}
Keys == {"_id", "ref"}

DictsOf(values) == {D(f) : f \in UNION {[K -> values] : K \in SUBSET Keys}}
ListsOf(values) ==
    {EmptyList} \cup {L(<<v>>) : v \in values}
                \cup {L(<<v, w>>) : <<v, w>> \in values \X values}

Level1 == Scalars \cup DictsOf(Scalars) \cup ListsOf(Scalars)
Level2 == Level1 \cup DictsOf(Level1) \cup ListsOf(Level1)
SerValues == Level2 \cup {L(<<v>>) : v \in Level2} \cup {D([ref |-> v]) : v \in Level2}

SerInit ==
    /\ val \in SerValues
    /\ orig = val
    /\ prev = val
    /\ applied = 0

\* one more application of _serialize_objectid to the value
Serialize ==
    /\ applied < MaxApplied
    /\ prev' = val
    /\ val' = _serialize_objectid(val)
    /\ applied' = applied + 1
    /\ UNCHANGED <<orig, gh_vars, db_vars, up_vars, loop_vars>>

----------------------------------------------------------------------------
(* Specifications: each server on its own, the other parts at rest         *)

----------------------------------------------------------------------------
(* create_issue against an upstream repository that accepts every request: *)
(* each POST it receives is answered 201 and adds one issue.               *)

MaxIssues == 3

Accepted == [status |-> 201, body |-> "object"]

IssueArgs ==
    {[DefaultArgs EXCEPT !.title = t, !.body = b] :
        t \in {S("bug"), S("crash")}, b \in {S("text"), None}}

CreateLayers == {"tool", "frontend", "dispatch"}

\* create_issue as it is reached through each layer
CreateEntry(layer, a) ==
    CASE layer = "tool" -> CallTool("create_issue", a, Accepted)
      [] layer = "frontend" -> FrontEnd("github_create_issue", a, Accepted)
      [] layer = "dispatch" -> execute_tool("github_create_issue", a, Accepted)

\* the POST requests among the exchanges of a call
Posts(exchanges) == SelectSeq(exchanges, LAMBDA x : x.method = "POST")

IssuesInit ==
    /\ github_token \in {None, S("ghp_token")}
    /\ github_username = S("octo")
    /\ base_url = S("https://api.github.com")
    /\ headers = InitHeaders(github_token)
    /\ gh_call = NoCall
    /\ gh_ret = NoReturn
    /\ http = <<>>
    /\ repo_issues = <<>>
    /\ posted = 0
    /\ calls = 0

CreateIssueCall ==
    /\ GhIdle
    /\ calls < MaxIssues
    /\ \E layer \in CreateLayers, a \in IssueArgs :
          LET r == CreateEntry(layer, a)
          IN  /\ GhServe(layer, "create_issue", a, r)
              /\ calls' = calls + 1
              /\ posted' = posted + Len(Posts(r.http))
              /\ repo_issues' = repo_issues \o [i \in 1..Len(Posts(r.http)) |-> a.title]
    /\ UNCHANGED <<db_vars, ser_vars, loop_vars>>

IssuesNext ==
    \/ CreateIssueCall
    \/ GhReturn

\* a server process that constructs no GitHubTool
GhRest ==
    /\ github_token = None /\ github_username = None /\ base_url = None
    /\ headers = InitHeaders(None)
    /\ gh_call = NoCall /\ gh_ret = NoReturn /\ http = <<>>

\* a server process that constructs no MongoDBTool
DbRest ==
    /\ client = None /\ database_name = None /\ default_collection = None
    /\ coll = <<>> /\ next_id = 1 /\ clock = 0
    /\ db_call = DbNoCall /\ db_ret = DbNoReturn /\ cmds = <<>>

SerRest == val = None /\ orig = None /\ prev = None /\ applied = 0

\* no upstream repository is followed
UpRest == repo_issues = <<>> /\ posted = 0 /\ calls = 0

\* the event loop has taken in no call
LoopRest == tasks = <<>> /\ wire = <<>>

InitGitHub == GhInit /\ DbRest /\ SerRest /\ UpRest /\ LoopRest
InitMongo == DbInit /\ GhRest /\ SerRest /\ UpRest /\ LoopRest
InitSerialize == SerInit /\ GhRest /\ DbRest /\ UpRest /\ LoopRest
InitIssues == IssuesInit /\ DbRest /\ SerRest /\ LoopRest

\* either server process: the one that constructed a GitHubTool or the one
\* that constructed a MongoDBTool
InitServers == InitGitHub \/ InitMongo
ServersNext ==
    \/ client = None /\ GhNext
    \/ base_url = None /\ DbNext

SerNext == Serialize

SpecGitHub == InitGitHub /\ [][GhNext]_vars
SpecMongo == InitMongo /\ [][DbNext]_vars
SpecSerialize == InitSerialize /\ [][SerNext]_vars
SpecIssues == InitIssues /\ [][IssuesNext]_vars
SpecServers == InitServers /\ [][ServersNext]_vars

----------------------------------------------------------------------------
(* The event loop of one server process.  mcp.run() serves every tool call *)
(* as a coroutine on one thread: a call that came in is ready, the loop    *)
(* resumes a ready coroutine only when none is running, and a running      *)
(* coroutine keeps the thread until it returns or reaches an await.        *)

MaxCalls == 3

\* the answers the analysis is given here: every sub-call succeeds, the
\* probe finds a "timestamp" member or finds none
LoopAnalyze ==
    {[i \in 1..6 |-> IF i <= 4 THEN [status |-> 200, body |-> "object"] ELSE p] :
        p \in {[status |-> 200, body |-> "object"],
                [status |-> 200, body |-> "object_ts"]}}

\* the tool calls a client may send to the process
LoopCalls ==
    IF client = None
    THEN [tool : {"github_analyze_repository"}, rs : LoopAnalyze]
           \cup {[tool |-> "github_list_issues",
                  rs |-> <<[status |-> 200, body |-> "array"]>>]}
    ELSE {[tool |-> "mongodb_find", rs |-> <<>>],
          [tool |-> "mongodb_insert", rs |-> <<>>]}

\* the upstream requests the tool function makes, in order: the endpoints
\* of its HTTP exchanges or the operations of its driver commands
Endpoints(h) == [i \in 1..Len(h) |-> h[i].endpoint]
Commands(r) == [i \in 1..Len(r.cmds) |-> r.cmds[i].op]

Trace(c) ==
    IF c.tool = "github_analyze_repository"
    THEN Endpoints(github_analyze_repository(DefaultArgs, c.rs).http)
    ELSE IF c.tool = "github_list_issues"
    THEN Endpoints(FrontEnd(c.tool, DefaultArgs, c.rs[1]).http)
    ELSE Commands(CHOOSE r \in db_front_end(State, c.tool,
                                            IF c.tool = "mongodb_find"
                                            THEN ValidFind ELSE ValidInsert,
                                            FALSE) : TRUE)

\* a tool function whose client calls are awaited: the coroutine is
\* suspended before each request
BodyAwaiting(trace) ==
    [i \in 1..(2 * Len(trace)) |->
        IF i % 2 = 1 THEN [kind |-> "await", endpoint |-> ""]
        ELSE [kind |-> "request", endpoint |-> trace[i \div 2]]]

\* the steps of the tool function's coroutine: its blocking client calls
\* one after the other, with no await among them
Body(trace) ==
    [i \in 1..Len(trace) |-> [kind |-> "request", endpoint |-> trace[i]]]

Running == {t \in 1..Len(tasks) : tasks[t].state = "running"}

\* a tool call comes in: its coroutine is created and is ready to run
Arrive ==
    /\ Len(tasks) < MaxCalls
    /\ \E c \in LoopCalls :
          tasks' = Append(tasks, [tool |-> c.tool, steps |-> Body(Trace(c)), pos |-> 0,
                                  state |-> "ready", arrived |-> Len(wire)])
    /\ UNCHANGED <<wire, gh_vars, db_vars, ser_vars, up_vars>>

\* the loop resumes a ready coroutine when no coroutine is running
Resume ==
    /\ Running = {}
    /\ \E t \in 1..Len(tasks) :
          /\ tasks[t].state = "ready"
          /\ tasks' = [tasks EXCEPT ![t].state = "running"]
    /\ UNCHANGED <<wire, gh_vars, db_vars, ser_vars, up_vars>>

\* the running coroutine takes its next step: a blocking request is sent
\* and answered, an await hands the thread back to the loop
Step ==
    /\ \E t \in Running :
          /\ tasks[t].pos < Len(tasks[t].steps)
          /\ LET s == tasks[t].steps[tasks[t].pos + 1]
             IN  IF s.kind = "await"
                 THEN /\ tasks' = [tasks EXCEPT ![t].pos = @ + 1,
                                                ![t].state = "ready"]
                      /\ wire' = wire
                 ELSE /\ tasks' = [tasks EXCEPT ![t].pos = @ + 1]
                      /\ wire' = Append(wire, <<t, s.endpoint>>)
    /\ UNCHANGED <<gh_vars, db_vars, ser_vars, up_vars>>

\* the running coroutine returns its envelope
Return ==
    /\ \E t \in Running :
          /\ tasks[t].pos = Len(tasks[t].steps)
          /\ tasks' = [tasks EXCEPT ![t].state = "done"]
    /\ UNCHANGED <<wire, gh_vars, db_vars, ser_vars, up_vars>>

LoopNext ==
    \/ Arrive
    \/ Resume
    \/ Step
    \/ Return

SpecLoop == InitServers /\ [][LoopNext]_vars

----------------------------------------------------------------------------
(* Properties                                                              *)

\* keys an error envelope may carry beside "error"
ContextKeys == {"repository", "available_tools", "tool", "arguments"}

\* an envelope of the GitHub server is error-shaped or success-shaped
Shaped(env) ==
    \/ "error" \in env.keys /\ env.keys \ {"error"} \subseteq ContextKeys
    \/ "error" \notin env.keys /\ env.keys # {} /\ env.nested = {}

\* C1: every envelope an operation returns is either success-shaped (no
\* "error" key, success fields, no error payload at any depth) or
\* error-shaped ("error" plus context only); none mixes the two and none
\* lacks both.
C1_EnvelopeShape ==
    /\ gh_ret.outcome = "value" => Shaped(gh_ret.env)
    /\ db_ret.outcome = "value" =>
          \/ "error" \in db_ret.env.keys
                /\ db_ret.env.keys \ {"error"} \subseteq ContextKeys
          \/ "error" \notin db_ret.env.keys /\ db_ret.env.keys # {}

WriteMethods ==
    {"create_issue", "create_pull_request_review",
     "create_pull_request_review_comment", "update_pull_request_review_comment",
     "delete_pull_request_review_comment"}

TokenRequired ==
    {"GitHub token required for creating issues",
     "GitHub token required for creating reviews",
     "GitHub token required for creating review comments",
     "GitHub token required for updating review comments",
     "GitHub token required for deleting review comments"}

\* the call being answered is a call of a write method, directly or through
\* the front-end function that passes its arguments on
WriteCall ==
    /\ gh_ret.outcome # "none"
    /\ \/ gh_call.layer = "tool" /\ gh_call.tool \in WriteMethods
       \/ gh_call.layer = "frontend" /\ gh_call.tool = "github_create_issue"

\* C2: with no token configured (none, or an empty one), every call of a
\* write method, whatever its arguments, returns the token-required error
\* envelope and sends no HTTP request; a write tool called through the
\* dispatcher likewise returns an error and sends nothing.
C2_WriteNeedsToken ==
    ~Truthy(github_token) =>
        /\ WriteCall =>
              /\ gh_ret.outcome = "value"
              /\ gh_ret.env.keys = {"error"}
              /\ gh_ret.env.error \in TokenRequired
              /\ http = <<>>
        /\ (/\ gh_ret.outcome # "none"
            /\ gh_call.layer = "dispatch"
            /\ gh_call.tool \in {"github_" \o m : m \in WriteMethods})
              => "error" \in gh_ret.env.keys /\ http = <<>>

\* C2 witness: a review creation with valid arguments and an empty token
\* string has been answered
C2_Witness ==
    /\ github_token = S("")
    /\ gh_call.layer = "tool"
    /\ gh_call.tool = "create_pull_request_review"
    /\ gh_call.args = DefaultArgs
    /\ gh_ret.outcome = "value"
    /\ http = <<>>

PaginatedFrontEnd ==
    {"github_list_repositories", "github_list_issues", "github_list_pull_requests",
     "github_get_repository_branches", "github_search_repositories",
     "github_get_my_repositories", "github_get_trending_repositories"}

\* C3: on the front end and on the dispatch layer, a paginated operation
\* called with an integer per_page below 1 or above 100 returns an error
\* envelope and sends no HTTP request.
C3_PerPageRejected ==
    (/\ gh_ret.outcome # "none"
     /\ gh_call.layer \in {"frontend", "dispatch"}
     /\ gh_call.tool \in PaginatedFrontEnd
     /\ IsInt(gh_call.args.per_page)
     /\ (gh_call.args.per_page[2] < 1 \/ gh_call.args.per_page[2] > PerPageCap))
        => "error" \in gh_ret.env.keys /\ http = <<>>

\* C4: every invocation at the boundary returns a value; none lets an
\* exception through to its caller.
C4_NeverRaises ==
    /\ gh_ret.outcome # "raise"
    /\ db_ret.outcome # "raise"

JsonBodies == {"object", "object_ts", "array"}

\* the result _make_request must give for an answer with an HTTP status
StatusMapped(x) ==
    LET status == x.resp.status
        result == x.result
    IN  IF status = 401
        THEN result.kind = "error" /\ result.error = "Authentication failed"
        ELSE IF status = 403
        THEN result.kind = "error" /\ result.error = "Access forbidden"
        ELSE IF status = 404
        THEN result.kind = "error" /\ result.error = "Resource not found"
        ELSE IF status < 200 \/ status > 299
        THEN /\ result.kind = "error"
             /\ result.error = "GitHub API error"
             /\ result.status = status
        ELSE IF x.resp.body = "empty" THEN result.kind = "marker"
        ELSE x.resp.body \in JsonBodies => result.kind \in {"dict", "list"}

\* C5: for every request answered with an HTTP status, _make_request gives
\* the authentication, forbidden or not-found error for 401, 403, 404, the
\* generic error carrying the status for every other status outside
\* 200..299, the parsed JSON for a 2xx answer with a JSON body and the
\* success marker for a 2xx answer with no body.
C5_StatusMapping ==
    \A i \in 1..Len(http) : http[i].resp.status # 0 => StatusMapped(http[i])

\* the arguments of the database call being answered, a missing key read
\* as None
DbArgs == Resolve(db_call.args, <<>>)

\* the database call being answered left the collection as it found it and
\* issued no command, and its envelope is an error
Refused ==
    /\ db_ret.outcome = "value"
    /\ "error" \in db_ret.env.keys
    /\ cmds = <<>>
    /\ coll = db_call.st.coll

\* C6: on each of the three entry paths, delete called with the empty
\* filter {} returns an error envelope, issues no database command and
\* removes nothing.
C6_DeleteEmptyFilter ==
    (/\ db_ret.outcome # "none"
     /\ db_call.tool = "mongodb_delete"
     /\ DbArgs.filter = EmptyDict)
        => Refused

\* C7: on each of the three entry paths, update called with an empty filter
\* mapping or with an empty update mapping returns an error envelope,
\* issues no database command and leaves the collection unchanged.
C7_UpdateEmptyArguments ==
    (/\ db_ret.outcome # "none"
     /\ db_call.tool = "mongodb_update"
     /\ (DbArgs.filter = EmptyDict \/ DbArgs.update = EmptyDict))
        => Refused

\* no native identifier occurs in the value, at any depth
RECURSIVE NoOid(_)
NoOid(v) ==
    CASE v[1] = "oid" -> FALSE
      [] v[1] = "dict" -> \A k \in DOMAIN v[2] : NoOid(v[2][k])
      [] v[1] = "list" -> \A i \in 1..Len(v[2]) : NoOid(v[2][i])
      [] OTHER -> TRUE

\* w is v with every identifier replaced by its text and nothing else
\* changed: the same shape, the same keys, the same lengths, the same
\* non-identifier values
RECURSIVE Stringified(_, _)
Stringified(v, w) ==
    CASE v[1] = "oid" -> w = S(Hex(v[2]))
      [] v[1] = "dict" ->
            /\ w[1] = "dict"
            /\ DOMAIN w[2] = DOMAIN v[2]
            /\ \A k \in DOMAIN v[2] : Stringified(v[2][k], w[2][k])
      [] v[1] = "list" ->
            /\ w[1] = "list"
            /\ Len(w[2]) = Len(v[2])
            /\ \A i \in 1..Len(v[2]) : Stringified(v[2][i], w[2][i])
      [] OTHER -> w = v

\* C8: after _serialize_objectid is applied to a value, the result holds no
\* native identifier at any depth and is the value with its identifiers
\* turned into their text and all else unchanged; applying it again changes
\* nothing.
C8_SerializeIdempotent ==
    /\ applied >= 1 => NoOid(val) /\ Stringified(orig, val)
    /\ applied >= 2 => val = prev

\* C8 witness: a mapping holding a list with an identifier and a number was
\* serialized twice
C8_Witness ==
    /\ applied = 2
    /\ orig = D([ref |-> L(<<OID(1), I(1)>>)])
    /\ val = D([ref |-> L(<<S(Hex(1)), I(1)>>)])

\* a document without its generated identifier
Content(doc) == [k \in DOMAIN doc \ {"_id"} |-> doc[k]]

\* C9: when insert was called on the tool with a mapping d, both that call
\* and insert of the list [d] from the same state succeed with
\* inserted_count 1 and one identifier, and store documents with the same
\* content apart from the identifier.
C9_MappingEqualsSingleton ==
    (/\ db_ret.outcome # "none"
     /\ db_call.layer = "tool"
     /\ db_call.tool = "mongodb_insert"
     /\ ~db_call.fail
     /\ ~BadCollection(DbArgs.collection)
     /\ IsDict(DbArgs.documents))
        => LET st == db_call.st
               twin == insert(st, DbArgs.collection, L(<<DbArgs.documents>>), FALSE)
               n == Len(st.coll)
           IN  /\ db_ret.env.error = "" /\ twin.env.error = ""
               /\ db_ret.env.data.inserted_count = I(1)
               /\ twin.env.data.inserted_count = I(1)
               /\ Len(db_ret.env.data.inserted_ids[2]) = 1
               /\ Len(twin.env.data.inserted_ids[2]) = 1
               /\ Len(coll) = n + 1 /\ Len(twin.coll) = n + 1
               /\ Content(coll[n + 1]) = Content(twin.coll[n + 1])

\* the written form of a stored document in a result array
Written(doc) == DumpDefault(_serialize_objectid(D(doc)))

\* C10: a find with a negative or non-integer limit returns an error and
\* issues no command; a find that succeeds returns documents of the
\* collection that satisfy the filter (all of them for an absent or empty
\* filter), each once, in the order of the sort mapping when one is given,
\* exactly min(n, matches) of them from the head of that order when limit
\* is a positive n, and reports their number as count.
C10_FindResults ==
    (db_ret.outcome = "value" /\ db_call.tool = "mongodb_find") =>
        LET a == DbArgs
            st == db_call.st
            q == IF Truthy(a.query) THEN a.query[2] ELSE <<>>
            items == IF Truthy(a.sort) THEN a.sort[2] ELSE <<>>
            matching == {i \in 1..Len(st.coll) : Matches(st.coll[i], q)}
            res == db_ret.env.data.results[2]
            left == {i \in matching : \A j \in 1..Len(res) : res[j] # Written(st.coll[i])}
        IN  /\ (a.limit # None /\ (~IsInt(a.limit) \/ a.limit[2] < 0))
                  => "error" \in db_ret.env.keys /\ cmds = <<>>
            /\ db_ret.env.error = "" =>
                  /\ \A j \in 1..Len(res) :
                        \E i \in matching : res[j] = Written(st.coll[i])
                  /\ \A j, k \in 1..Len(res) :
                        j < k => res[j] # res[k] /\ ~Before(res[k][2], res[j][2], items)
                  /\ (IsInt(a.limit) /\ a.limit[2] > 0)
                        => Len(res) = Min(a.limit[2], Cardinality(matching))
                  /\ \A i \in left, j \in 1..Len(res) :
                        ~Before(st.coll[i], res[j][2], items)
                  /\ db_ret.env.data.count = I(Len(res))

\* C10 witness: the two active documents of the collection were asked for,
\* highest name first, one at most, and the one named 2 came back
C10_Witness ==
    /\ db_ret.outcome = "value"
    /\ db_call.tool = "mongodb_find"
    /\ db_call.args = ValidFind
    /\ db_ret.env.error = ""
    /\ Len(Select(db_call.st.coll, [active |-> B(TRUE)])) >= 2
    /\ db_ret.env.data.count = I(1)
    /\ db_ret.env.data.results[2][1][2].name = I(2)

\* the call being answered ran list_issues with these arguments, whichever
\* way it came in
IssuesCall ==
    /\ gh_ret.outcome = "value"
    /\ \/ gh_call.layer = "tool" /\ gh_call.tool = "list_issues"
       \/ gh_call.layer \in {"frontend", "dispatch"} /\ gh_call.tool = "github_list_issues"

\* the records of the upstream array that carry no pull-request marker
RECURSIVE Unmarked(_)
Unmarked(items) ==
    IF items = <<>> THEN <<>>
    ELSE IF Member(Head(items), "pull_request") # Absent THEN Unmarked(Tail(items))
    ELSE <<Head(items)>> \o Unmarked(Tail(items))

\* C11: when the upstream answers list_issues with an array of issue
\* records, the envelope's issues array holds exactly the projections of
\* the records in which no pull_request member is present, in upstream
\* order, and count is the length of that array.
C11_IssuesExcludePulls ==
    (/\ IssuesCall
     /\ Len(http) = 1
     /\ http[1].result.kind = "list")
        => LET want == Unmarked(Payload(http[1].resp.body))
           IN  /\ gh_ret.env.error = ""
               /\ "issues" \in DOMAIN gh_ret.env
               /\ gh_ret.env.issues = [i \in 1..Len(want) |-> IssueRecord(want[i])]
               /\ gh_ret.env.count = Len(gh_ret.env.issues)

\* the call being answered ran get_repository_contents and the upstream
\* answered its one request with JSON
ContentsCall ==
    /\ gh_ret.outcome = "value"
    /\ \/ gh_call.layer = "tool" /\ gh_call.tool = "get_repository_contents"
       \/ gh_call.layer \in {"frontend", "dispatch"}
          /\ gh_call.tool = "github_get_repository_contents"
    /\ Len(http) = 1
    /\ http[1].result.kind # "error"

\* an array is answered with a "directory" envelope of one record per
\* element in upstream order, an object with a "file" envelope
ContentsShape ==
    ContentsCall =>
        IF http[1].result.kind = "list"
        THEN /\ gh_ret.env.type = "directory"
             /\ Len(gh_ret.env.contents) = Len(Payload(http[1].resp.body))
             /\ \A i \in 1..Len(gh_ret.env.contents) :
                    gh_ret.env.contents[i] = ContentRecord(Payload(http[1].resp.body)[i])
        ELSE gh_ret.env.type = "file"

\* the single object answered is a base64 file below the size limit
SmallBase64File ==
    /\ ContentsCall
    /\ http[1].result.kind = "dict"
    /\ FileObject(http[1].resp.body).encoding = S("base64")
    /\ FileObject(http[1].resp.body).size[2] < SizeLimit

\* C12 as stated: directory envelope with one record per upstream element
\* in order, file envelope for a single object, and for every base64 file
\* below 1048576 bytes the content field is the base64-decoded text.
C12_ContentsAsStated ==
    /\ ContentsShape
    /\ SmallBase64File =>
          /\ "content" \in DOMAIN gh_ret.env.file
          /\ gh_ret.env.file.content = b64decode(FileObject(http[1].resp.body).content)

\* C12 amended: the same, except that the content field holds the decoded
\* text only when the content is base64 of UTF-8 text; when decoding fails
\* it holds the note "Binary file or encoding error".
C12_ContentsDecodedOrNote ==
    /\ ContentsShape
    /\ SmallBase64File =>
          /\ "content" \in DOMAIN gh_ret.env.file
          /\ gh_ret.env.file.content =
                IF b64decode(FileObject(http[1].resp.body).content) = Undecodable
                THEN S("Binary file or encoding error")
                ELSE b64decode(FileObject(http[1].resp.body).content)

\* a text file one byte under the limit was answered and decoded
C12_Witness ==
    /\ SmallBase64File
    /\ FileObject(http[1].resp.body).size = I(1048575)
    /\ gh_ret.env.type = "file"
    /\ gh_ret.env.file.content = S("hi")

\* C13: in the GitHub dispatch layer, a call whose argument bag lacks one of
\* the tool's declared required arguments (absent or None) is answered with
\* an error envelope and invokes no method of GitHubTool.
C13_MissingRequiredRejected ==
    (/\ gh_call.layer = "dispatch"
     /\ gh_ret.outcome = "value"
     /\ MissingRequired(gh_call.tool, gh_call.args))
        => /\ gh_ret.env.error # ""
           /\ gh_call.invoked = <<>>

\* the call being answered is one invocation of the analyze composite
AnalyzeReturned ==
    /\ gh_call.layer = "frontend"
    /\ gh_call.tool = "github_analyze_repository"
    /\ gh_ret.outcome = "value"

\* C14: when a sub-call of analyze-repository fails (error status or
\* transport failure), the composite returns a single error envelope that
\* names the repository and holds nothing of the other sub-calls, and no
\* sub-call request follows the failed one.
C14_AnalyzeAbortsOnFailure ==
    AnalyzeReturned =>
        \A i \in 1..Len(http) :
            (http[i].endpoint # "" /\ http[i].result.kind = "error")
                => /\ gh_ret.env.error # ""
                   /\ gh_ret.env.keys = {"error", "repository"}
                   /\ gh_ret.env.nested = {}
                   /\ \A j \in (i + 1)..Len(http) : http[j].endpoint = ""

\* C19: one invocation of analyze-repository issues exactly four upstream
\* requests, in the order repository info, branches, issues, pull requests,
\* and no other upstream request.
C19_AnalyzeFourRequests ==
    AnalyzeReturned =>
        /\ Len(http) = 4
        /\ [i \in 1..Len(http) |-> http[i].endpoint]
              = <<"repos", "repos/branches", "repos/issues", "repos/pulls">>
        /\ \A i \in 1..Len(http) : http[i].method = "GET"

\* C15: with a credential configured and an upstream that accepts every
\* request, after any n create_issue calls (identical arguments included)
\* the upstream has received exactly n POST requests and holds n issues,
\* one per call in call order: nothing is deduplicated or suppressed.
C15_EveryCallCreates ==
    Truthy(github_token) =>
        /\ posted = calls
        /\ Len(repo_issues) = calls
        /\ (gh_ret.outcome = "value" =>
              /\ Len(http) = 1
              /\ http[1].method = "POST"
              /\ gh_ret.env.error = ""
              /\ repo_issues[calls] = gh_call.args.title)

\* three calls were made, the second with the arguments of the first, and
\* the upstream holds three issues
C15_Witness ==
    /\ Truthy(github_token)
    /\ calls = 3
    /\ Len(repo_issues) = 3
    /\ repo_issues[1] = repo_issues[2]
    /\ gh_ret.outcome = "value"

\* C16: no tool operation changes a shared client handle: the GitHub
\* tool's token, username, base URL and header mapping, and the database
\* tool's connection, database name and default collection stay as
\* construction left them in every step.
C16_HandlesUnchanged == [][UNCHANGED <<gh_handle, db_handle>>]_vars

\* a database write has changed the collection over the open connection
C16_Witness ==
    /\ db_ret.outcome = "value"
    /\ db_call.tool = "mongodb_insert"
    /\ coll # db_call.st.coll
    /\ client = S("connected")
    /\ default_collection = S("embeddings")

\* C17: whatever integer per_page a paginated GitHubTool operation is
\* given, the per_page it sends upstream lies in 1..100 (above 100 sent as
\* 100, below 1 sent as 1), and it sends one request for one page only.
C17_PerPageClamped ==
    (/\ gh_call.layer = "tool"
     /\ gh_ret.outcome = "value"
     /\ IsInt(gh_call.args.per_page))
        => /\ Len(http) <= 1
           /\ \A i \in 1..Len(http) :
                 http[i].per_page # None =>
                    /\ 1 <= http[i].per_page[2]
                    /\ http[i].per_page[2] <= PerPageCap
                    /\ (gh_call.args.per_page[2] > PerPageCap
                          => http[i].per_page[2] = PerPageCap)
                    /\ (gh_call.args.per_page[2] < 1 => http[i].per_page[2] = 1)

\* C18: in both dispatch layers, a tool name that is no key of the routing
\* map is answered with an error envelope whose available_tools holds
\* exactly the names of the routing map, and nothing is invoked: no tool
\* method, no HTTP request, no driver command, no change of the collection.
C18_UnknownToolListed ==
    /\ (/\ gh_call.layer = "dispatch"
        /\ gh_ret.outcome # "none"
        /\ gh_call.tool \notin tool_handlers)
          => /\ gh_ret.outcome = "value"
             /\ gh_ret.env.error = "Unknown GitHub tool"
             /\ gh_ret.env.keys = {"error", "available_tools"}
             /\ gh_ret.env.available_tools = tool_handlers
             /\ gh_call.invoked = <<>>
             /\ http = <<>>
    /\ (/\ db_call.layer = "dispatch"
        /\ db_ret.outcome # "none"
        /\ db_call.tool \notin db_tool_handlers)
          => /\ db_ret.outcome = "value"
             /\ db_ret.env.error = "Unknown tool"
             /\ db_ret.env.keys = {"error", "available_tools"}
             /\ db_ret.env.data.available_tools = db_tool_handlers
             /\ cmds = <<>>
             /\ coll = db_call.st.coll

\* the GitHub dispatch layer has answered a call of a tool named "bogus"
C18_Witness ==
    /\ gh_call.layer = "dispatch"
    /\ gh_call.tool = "bogus"
    /\ gh_ret.outcome = "value"
    /\ gh_ret.env.available_tools = tool_handlers

\* the composite operations of the GitHub front end
Composites == {"github_analyze_repository", "github_get_trending_repositories"}

\* C20: an invocation of a non-composite tool operation issues at most one
\* upstream request (one HTTP request, one database command), and when the
\* upstream fails it (error status, timeout, connection failure) the
\* operation returns an error envelope and makes no second attempt.
C20_AtMostOneRequest ==
    /\ (gh_ret.outcome # "none" /\ gh_call.tool \notin Composites)
          => /\ Len(http) <= 1
             /\ (Len(http) = 1 /\ http[1].result.kind = "error")
                   => gh_ret.outcome = "value" /\ gh_ret.env.error # ""
    /\ db_ret.outcome # "none"
          => /\ Len(cmds) <= 1
             /\ (db_call.fail /\ Len(cmds) = 1)
                   => db_ret.outcome = "value" /\ db_ret.env.error # ""

\* the update call being answered sent its command to the database
UpdateSent ==
    /\ db_ret.outcome # "none"
    /\ db_call.tool = "mongodb_update"
    /\ cmds # <<>>

\* the "$set" clause the caller supplied, empty when there is none
CallerSet ==
    IF "$set" \in DOMAIN DbArgs.update[2] THEN DbArgs.update[2]["$set"][2] ELSE <<>>

\* C21: an update call that reaches the database sends update_many with a
\* "$set" whose updated_at is the time of the call: a mapping without
\* "$set" gains one, a caller's "$set".updated_at is overwritten, every
\* other operator and "$set" field of the caller is sent as given, and a
\* successful call stamps every document matching the filter.
C21_UpdateStamped ==
    UpdateSent =>
        LET sent == cmds[1].update
            stamp == Date(db_call.st.clock)
            before == db_call.st.coll
        IN  /\ Len(cmds) = 1
            /\ cmds[1].op = "update_many"
            /\ DOMAIN sent = DOMAIN DbArgs.update[2] \cup {"$set"}
            /\ \A op \in DOMAIN sent \ {"$set"} : sent[op] = DbArgs.update[2][op]
            /\ DOMAIN sent["$set"][2] = DOMAIN CallerSet \cup {"updated_at"}
            /\ sent["$set"][2].updated_at = stamp
            /\ \A k \in DOMAIN CallerSet \ {"updated_at"} :
                  sent["$set"][2][k] = CallerSet[k]
            /\ (db_ret.env.error = "" /\ Select(before, DbArgs.filter[2]) # <<>>)
                  => /\ Len(coll) = Len(before)
                     /\ \A i \in 1..Len(before) :
                           IF Matches(before[i], DbArgs.filter[2])
                           THEN /\ coll[i].updated_at = stamp
                                /\ \A k \in DOMAIN CallerSet \ {"updated_at"} :
                                      coll[i][k] = CallerSet[k]
                           ELSE coll[i] = before[i]

\* a caller-supplied "$set".updated_at was overwritten in a call made after
\* the clock moved, and two documents matched and carry the new time
C21_Witness ==
    /\ UpdateSent
    /\ db_ret.env.error = ""
    /\ "updated_at" \in DOMAIN CallerSet
    /\ db_call.st.clock = 1
    /\ Len(Select(db_call.st.coll, DbArgs.filter[2])) = 2
    /\ \A i \in 1..Len(coll) :
          Matches(db_call.st.coll[i], DbArgs.filter[2]) => coll[i].updated_at = Date(1)

\* the insert call being answered came back with an envelope
InsertAnswered ==
    /\ db_ret.outcome = "value"
    /\ db_call.tool = "mongodb_insert"

\* input insert must reject: empty, neither a mapping nor a list, or a list
\* with an element that is no mapping
BadDocuments(documents) ==
    \/ ~Truthy(documents)
    \/ ~IsDict(documents) /\ ~IsList(documents)
    \/ IsList(documents) /\ \E i \in 1..Len(documents[2]) : ~IsDict(documents[2][i])

\* C22: insert, on every path on which it is reached (the front end's
\* len(documents) raises before it is called when documents has no length),
\* validates its whole input before it writes: empty input,
\* input that is neither a mapping nor a list, and a list with a
\* non-mapping element at any index are answered with an error envelope and
\* leave the collection unchanged, valid elements before the invalid one
\* included; a successful insert stores documents that all carry the same
\* value as created_at and as updated_at.
C22_InsertValidatesFirst ==
    InsertAnswered =>
        /\ BadDocuments(DbArgs.documents) => Refused
        /\ db_ret.env.error = "" =>
              LET before == db_call.st.coll
                  n == Len(coll) - Len(before)
              IN  /\ n = db_ret.env.data.inserted_count[2]
                  /\ n >= 1
                  /\ SubSeq(coll, 1, Len(before)) = before
                  /\ \A i \in (Len(before) + 1)..Len(coll) :
                        /\ coll[i].created_at = coll[i].updated_at
                        /\ coll[i].created_at = coll[Len(coll)].created_at
                        /\ coll[i].created_at = Date(db_call.st.clock)

\* a list of two documents was inserted after the clock moved
C22_Witness ==
    /\ InsertAnswered
    /\ db_ret.env.error = ""
    /\ Len(coll) = Len(db_call.st.coll) + 2
    /\ db_call.st.clock = 1
    /\ coll[Len(coll)].created_at = Date(1)
    /\ coll[Len(coll) - 1].updated_at = Date(1)

\* the single object answered is a file that is not base64 or is of
\* 1048576 bytes or more
UndecodedFile ==
    /\ ContentsCall
    /\ http[1].result.kind = "dict"
    /\ FileObject(http[1].resp.body).encoding # Absent
    /\ \/ FileObject(http[1].resp.body).encoding # S("base64")
       \/ FileObject(http[1].resp.body).size[2] >= SizeLimit

\* C23: for a single-file answer whose encoding is not base64 or whose size
\* is 1048576 bytes or more, the file record returned has a content field,
\* holding a note in place of the content.
C23_NoteForUndecoded ==
    UndecodedFile =>
        /\ gh_ret.env.type = "file"
        /\ "content" \in DOMAIN gh_ret.env.file
        /\ IsStr(gh_ret.env.file.content)

\* the call being answered is of the operation, whichever way it came in
IsOperation(method) ==
    /\ gh_ret.outcome = "value"
    /\ \/ gh_call.layer = "tool" /\ gh_call.tool = method
       \/ gh_call.layer \in {"frontend", "dispatch"} /\ gh_call.tool = "github_" \o method

\* the argument was given and is outside the allowed set
Outside(arg, allowed) == arg # Absent /\ arg \notin allowed

\* an enumerated parameter of the call being answered is outside its set
BadEnumerated ==
    \/ /\ IsOperation("list_issues") \/ IsOperation("list_pull_requests")
       /\ Outside(gh_call.args.state, States)
    \/ /\ IsOperation("search_repositories")
       /\ \/ Outside(gh_call.args.sort, {S("stars"), S("forks"), S("updated")})
          \/ Outside(gh_call.args.order, {S("asc"), S("desc")})
    \/ /\ IsOperation("create_pull_request_review_comment")
       /\ Outside(gh_call.args.side, {S("LEFT"), S("RIGHT")})
    \/ /\ IsOperation("create_pull_request_review")
       /\ Outside(gh_call.args.event, {S(ev) : ev \in valid_events})

\* C24: on every entry path (tool method, front-end function, dispatch
\* layer), a call whose enumerated parameter (state, sort, order, side,
\* event) is outside the allowed set is answered with an error envelope and
\* sends no HTTP request.
C24_EnumeratedRejected ==
    BadEnumerated => gh_ret.env.error # "" /\ http = <<>>

\* the call being answered is of the trending operation
TrendingReturned ==
    /\ gh_call.layer = "frontend"
    /\ gh_call.tool = "github_get_trending_repositories"
    /\ gh_ret.outcome = "value"

\* the threshold the selector stands for
Threshold(since) ==
    CASE since = S("daily") -> "today-1"
      [] since = S("weekly") -> "today-7"
      [] since = S("monthly") -> "today-30"

\* C25: trending searches once for "created:>=<threshold>", the threshold
\* being today minus 1, 7 or 30 days for daily, weekly or monthly, with
\* " language:<language>" appended exactly when a non-empty language is
\* given; a selector outside {daily, weekly, monthly} is answered with an
\* error envelope and is not searched.
C25_TrendingQuery ==
    TrendingReturned =>
        IF gh_call.args.since \in {S("daily"), S("weekly"), S("monthly")}
        THEN /\ gh_call.invoked = <<"search_repositories">>
             /\ Len(http) <= 1
             /\ gh_ret.env.error = "" =>
                   gh_ret.env.query =
                      S("created:>=" \o Threshold(gh_call.args.since)
                          \o (IF gh_call.args.language \in {None, S("")} THEN ""
                              ELSE " language:" \o gh_call.args.language[2]))
        ELSE /\ gh_ret.env.error # ""
             /\ http = <<>>
             /\ gh_call.invoked = <<>>

\* the call being answered ran list_pull_requests, whichever way it came in
PullsCall ==
    /\ gh_ret.outcome = "value"
    /\ \/ gh_call.layer = "tool" /\ gh_call.tool = "list_pull_requests"
       \/ gh_call.layer \in {"frontend", "dispatch"}
          /\ gh_call.tool = "github_list_pull_requests"

\* the records a listing answered with, <<>> when it answered with none
ListedRecords ==
    IF IssuesCall /\ "issues" \in DOMAIN gh_ret.env THEN gh_ret.env.issues
    ELSE IF PullsCall /\ "pull_requests" \in DOMAIN gh_ret.env
    THEN gh_ret.env.pull_requests
    ELSE <<>>

\* the text of an upstream record's body, "" for a record without one
UpstreamBody(u) == IF Member(u, "body") = Absent THEN "" ELSE u.body[2]

\* C26: every body projected by list_issues or list_pull_requests equals
\* the upstream body when that has at most 500 characters, and otherwise is
\* its first 500 characters followed by "..."; no projected body is longer
\* than 503 characters.
C26_BodyTruncated ==
    \A i \in 1..Len(ListedRecords) :
        LET r == ListedRecords[i]
            sent == Payload(http[1].resp.body)
        IN  /\ Len(r.body[2]) <= 503
            /\ \E j \in 1..Len(sent) :
                  /\ Lookup(sent[j], "number") = r.number
                  /\ r.body[2] =
                        IF Len(UpstreamBody(sent[j])) <= 500
                        THEN UpstreamBody(sent[j])
                        ELSE SubSeq(UpstreamBody(sent[j]), 1, 500) \o "..."

\* a listing answered with a body left whole at 500 characters and bodies
\* cut to 503
C26_Witness ==
    /\ Len(ListedRecords) = 3
    /\ Len(ListedRecords[1].body[2]) = 500
    /\ Len(ListedRecords[2].body[2]) = 503
    /\ ListedRecords[3].body[2] = Chars500 \o "..."

\* a listing got an array from the upstream in which a record it projects
\* has a body or a user that is present and null
ProjectionFailed ==
    /\ IssuesCall \/ PullsCall
    /\ Len(http) = 1
    /\ http[1].result.kind = "list"
    /\ \E j \in 1..Len(Payload(http[1].resp.body)) :
          LET u == Payload(http[1].resp.body)[j]
          IN  /\ IssuesCall => ~Truthy(Lookup(u, "pull_request"))
              /\ Member(u, "body") = None \/ Member(u, "user") = None

\* C29: when the projection of any element fails, list_issues and
\* list_pull_requests return an envelope that holds "error" and nothing
\* else: no partial list of the elements that could be projected.
C29_NoPartialListing ==
    ProjectionFailed =>
        /\ gh_ret.env.keys = {"error"}
        /\ gh_ret.env.error # ""
        /\ ListedRecords = <<>>
        /\ {"issues", "pull_requests", "count"} \cap DOMAIN gh_ret.env = {}

\* list_pull_requests was answered an array whose first record has a null
\* body and whose second record is sound, and returned the error alone
C29_Witness ==
    /\ ProjectionFailed
    /\ PullsCall
    /\ http[1].resp.body = "issues_null_body"
    /\ gh_ret.env.keys = {"error"}

\* C27: a successful update reports upserted_count 1 when upsert is true
\* and no document matched the filter, and 0 otherwise; matched_count and
\* modified_count are the numbers of documents matched and modified.
C27_UpdateCounts ==
    (UpdateSent /\ db_ret.env.error = "") =>
        LET before == db_call.st.coll
            matched == {i \in 1..Len(before) : Matches(before[i], DbArgs.filter[2])}
            data == db_ret.env.data
        IN  /\ data.upserted_count =
                  I(IF Truthy(DbArgs.upsert) /\ matched = {} THEN 1 ELSE 0)
            /\ data.matched_count = I(Cardinality(matched))
            /\ data.modified_count =
                  I(Cardinality({i \in matched : coll[i] # before[i]}))

\* a tool call that reached insert, update or delete is being answered
WriteAnswered ==
    /\ db_ret.outcome # "none"
    /\ db_call.tool \in {"mongodb_insert", "mongodb_update", "mongodb_delete"}

\* the document of a collection that carries an identifier, if any
Holding(docs, id) == {i \in 1..Len(docs) : docs[i]._id = id}

\* the documents of the collection that the call being answered created
Created == {i \in 1..Len(coll) : Holding(db_call.st.coll, coll[i]._id) = {}}

\* what the claim says of the documents that were there before the call:
\* those still stored keep their created_at, and every stored document
\* whose created_at is a time has an updated_at that is no earlier
CreatedAtKept ==
    /\ \A i \in 1..Len(db_call.st.coll) : \A j \in Holding(coll, db_call.st.coll[i]._id) :
          Member(coll[j], "created_at") = Member(db_call.st.coll[i], "created_at")
    /\ \A j \in 1..Len(coll) :
          Member(coll[j], "created_at")[1] = "date"
              => /\ Member(coll[j], "updated_at")[1] = "date"
                 /\ coll[j].updated_at[2] >= coll[j].created_at[2]
    /\ db_call.tool = "mongodb_insert" =>
          \A j \in Created : /\ coll[j].created_at = Date(db_call.st.clock)
                             /\ coll[j].updated_at = Date(db_call.st.clock)

Block(t) == {i \in 1..Len(wire) : wire[i][1] = t}

\* C28: two tool calls served by the same process never interleave: the
\* requests of each call reach the upstream as one contiguous block, and
\* while a call has sent some but not all of its requests no other call
\* sends one.
C28_CallsDoNotInterleave ==
    /\ \A t \in 1..Len(tasks) : \A i, k \in Block(t) : \A j \in i..k : j \in Block(t)
    /\ \A t \in 1..Len(tasks) :
          LET requests == {i \in 1..Len(tasks[t].steps) :
                              tasks[t].steps[i].kind = "request"}
          IN  (Block(t) # {} /\ Cardinality(Block(t)) < Cardinality(requests))
                  => wire[Len(wire)][1] = t

\* a call came in while an analysis had sent some of its requests, and has
\* since sent its own, after the last request of the analysis
C28_Witness ==
    \E t, u \in 1..Len(tasks) :
        /\ t # u
        /\ tasks[t].tool = "github_analyze_repository"
        /\ tasks[t].state = "done" /\ Cardinality(Block(t)) >= 5
        /\ \E i, k \in Block(t) : i <= tasks[u].arrived /\ tasks[u].arrived < k
        /\ Block(u) # {}

====
